---- MODULE Spec2Model ----
(***************************************************************************)
(* A model of libsdb, the core of a ptrace debugger: the process object    *)
(* (launch, attach, wait_on_signal, resume, step_instruction, destructor), *)
(* its software breakpoint sites and stoppoint collections, together with  *)
(* the part of the Linux kernel the library talks to (one inferior: its    *)
(* run state, its pending wait status, its program counter and memory).    *)
(*                                                                         *)
(* A library call is one action.  The body of a call is an operator from   *)
(* a "world" record (the fields of the process object plus the kernel      *)
(* state) to the world after the call; a C++ exception is the field err    *)
(* being set, and every later statement of the call is skipped.            *)
(***************************************************************************)
EXTENDS Integers, Sequences, FiniteSets, TLC

(***************************************************************************)
(* Bounds of the model.                                                    *)
(***************************************************************************)
\* number of process objects created (launch / attach) in one behaviour
MaxSessions == 1
\* number of breakpoint sites constructed in one behaviour of Spec, at the
\* addresses 0..MaxSites-1
MaxSites == 1
\* number of breakpoint sites constructed in one behaviour of SpecPoints
MaxIds == 2
\* number of watchpoints constructed in one behaviour
MaxWatch == 1
\* stoppoint addresses the caller passes in SpecPoints are 0..MaxAddr
MaxAddr == 1
\* the inferior's mapped memory is the addresses 0..MemSize-1
MemSize == 17
\* the caller reads up to MaxRead bytes at once
MaxRead == 2
\* number of watchpoints constructed where they are enabled and disabled
MaxHw == 5
\* number of pipe objects the caller makes, one after the other
MaxPipes == 2
\* reads start within MaxPages pages and are up to MaxPages pages long
MaxPages == 2

(***************************************************************************)
(* Program constants.                                                      *)
(***************************************************************************)
\* int3, the byte a software breakpoint patches in
SOFTWARE_BREAKPOINT_INSTRUCTION == 204
SIGTRAP == 5
SIGKILL == 9
SIGSEGV == 11
SIGCONT == 18
SIGSTOP == 19
\* exit(-1) of the child, as seen in the low 8 bits of the wait status
EXIT_FAILURE_STATUS == 255
\* virt_addr wraps modulo 2^64; the model keeps the wrap-around with a
\* narrower word so that address 0 - 1 is a large unmapped address
AddrModulus == 65536
\* bytes of the word PTRACE_PEEKDATA / PTRACE_POKEDATA transfer
WordBytes == 8
\* bytes of a page of the inferior
PageSize == 4096

STOPPED == "STOPPED"
RUNNING == "RUNNING"
EXITED == "EXITED"
TERMINATED == "TERMINATED"
process_state == {STOPPED, RUNNING, EXITED, TERMINATED}

NoErr == ""
NoValue == [bytes |-> <<>>, signed |-> FALSE]
NoEvent == [kind |-> "none", info |-> 0]

VARIABLES
    obj,                \* TRUE while a process object is alive
    m_pid,              \* process::m_pid
    m_terminate_on_end, \* process::m_terminate_on_end
    m_is_attached,      \* process::m_is_attached
    m_state,            \* process::m_state
    m_registers,        \* the cached user area (the part the model needs)
    m_breakpoints,      \* stoppoint_collection<breakpoint_site>::m_stoppoints
    m_watchpoints,      \* stoppoint_collection<watchpoint>::m_stoppoints
    id_,                \* the static counter of breakpoint_site.cpp
    wp_id,              \* the static counter of watchpoint.cpp
    kern,               \* the inferior as the kernel sees it
    mem,                \* the inferior's memory, address -> byte
    last,               \* the last library call: name, input, error, result
    sessions,           \* process objects created so far
    chan                \* a pipe object of the caller and its descriptors

vars == <<obj, m_pid, m_terminate_on_end, m_is_attached, m_state, m_registers,
          m_breakpoints, m_watchpoints, id_, wp_id, kern, mem, last, sessions,
          chan>>

(***************************************************************************)
(* Addresses (types.hpp).                                                  *)
(***************************************************************************)
\* virt_addr::operator+ : unsigned wrap-around addition
virt_addr_plus(a, off) == (a + off) % AddrModulus

\* virt_addr::operator- : unsigned wrap-around subtraction
virt_addr_minus(a, off) == (a - off + AddrModulus) % AddrModulus

Mapped(a) == a \in 0..(MemSize - 1)

\* the addresses of the word at a are all mapped
WordMapped(a) == \A i \in 0..(WordBytes - 1) : Mapped(a + i)

(***************************************************************************)
(* The world a library call runs in.                                       *)
(***************************************************************************)
World ==
    [obj |-> obj, m_pid |-> m_pid, m_terminate_on_end |-> m_terminate_on_end,
     m_is_attached |-> m_is_attached, m_state |-> m_state,
     m_registers |-> m_registers, m_breakpoints |-> m_breakpoints,
     m_watchpoints |-> m_watchpoints, id_ |-> id_, wp_id |-> wp_id,
     kern |-> kern, mem |-> mem,
     err |-> NoErr,        \* the exception in flight, NoErr if none
     ret |-> NoEvent,      \* the stop_reason a call returns
     val |-> 0,            \* the id of the stoppoint a call returns
     log |-> <<>>,         \* the system calls issued, in order
     data |-> <<>>,        \* the bytes a call returns
     eio |-> FALSE,        \* the kernel refuses a poke (EIO) during the call
     reg |-> "",           \* the register a call of the register file names
     value |-> NoValue,    \* the value passed to registers::write
     iov |-> <<>>,         \* the remote ranges passed to process_vm_readv
     blocked |-> FALSE]    \* a waitpid that cannot return

\* error::send / error::send_errno : throw
Raise(w, what) == [w EXCEPT !.err = what]

Sys(w, call) == [w EXCEPT !.log = Append(@, call)]

(***************************************************************************)
(* The kernel: one inferior.                                               *)
(*   kern.status  "none" (no such process), "running", "stopped",          *)
(*                "zombie" (dead, wait status not collected), "gone"       *)
(*   kern.traced  traced by the debugger                                   *)
(*   kern.child   a child of the debugger (forked by launch)               *)
(*   kern.event   the wait status waitpid has not yet returned             *)
(*   kern.sigstop a SIGSTOP is pending                                     *)
(***************************************************************************)
\* the words of the user area the model keeps, by their offset in struct
\* user: the word of rax, the first word of i387 (fcw, fsw, ftw, fop), and
\* the debug registers dr0 to dr3 and dr7
UserOffsets == {80, 224, 848, 856, 864, 872, 904}

ZeroWord == [i \in 1..WordBytes |-> 0]

ZeroUser == [o \in UserOffsets |-> ZeroWord]

\* the user area of a process that has just executed its program: the x87
\* control word is 0x037f, everything else the model keeps is 0
ExecUser ==
    [o \in UserOffsets |->
        IF o = 224 THEN [i \in 1..WordBytes |-> IF i = 1 THEN 127 ELSE IF i = 2 THEN 3 ELSE 0]
        ELSE ZeroWord]

NoProcess ==
    [pid |-> 0, status |-> "none", traced |-> FALSE, child |-> FALSE,
     rip |-> 0, event |-> NoEvent, sigstop |-> FALSE, user |-> ZeroUser]

Alive(k) == k.status \in {"running", "stopped"}

\* a ptrace request (other than ATTACH) succeeds only on a tracee in a stop
InPtraceStop(k, pid) == pid > 0 /\ pid = k.pid /\ k.traced /\ k.status = "stopped"

\* the inferior dies: WIFEXITED / WIFSIGNALED become reportable
Die(k, kind, info) ==
    [k EXCEPT !.status = "zombie", !.event = [kind |-> kind, info |-> info],
              !.sigstop = FALSE]

\* a signal reaches the inferior (kill(2), or a fault of its own)
Deliver(k, sig) ==
    IF ~Alive(k) THEN k
    ELSE IF sig = SIGKILL THEN Die(k, "signaled", SIGKILL)
    ELSE IF k.traced
    THEN IF k.status = "running"
         THEN \* signal-delivery-stop, reported to the tracer
              [k EXCEPT !.status = "stopped",
                        !.event = [kind |-> "stopped", info |-> sig]]
         ELSE \* already in a stop: the signal stays pending
              [k EXCEPT !.sigstop = IF sig = SIGSTOP THEN TRUE
                                    ELSE IF sig = SIGCONT THEN FALSE ELSE @]
    ELSE IF sig = SIGSTOP THEN [k EXCEPT !.status = "stopped"]
    ELSE IF sig = SIGCONT THEN [k EXCEPT !.status = "running", !.sigstop = FALSE]
    ELSE Die(k, "signaled", sig)

\* what a byte of the inferior's program does when executed
Opcode(b) ==
    IF b = SOFTWARE_BREAKPOINT_INSTRUCTION THEN "int3"
    ELSE IF b = 144 THEN "nop"
    ELSE IF b = 195 THEN "exit"
    ELSE "jmp"             \* a byte b < MemSize: jump to address b

\* the running inferior executes the instruction at its program counter
Instr(k, m) ==
    IF ~Mapped(k.rip) THEN Deliver(k, SIGSEGV)
    ELSE LET b == m[k.rip] IN
         IF Opcode(b) = "int3"
         THEN Deliver([k EXCEPT !.rip = virt_addr_plus(@, 1)], SIGTRAP)
         ELSE IF Opcode(b) = "nop" THEN [k EXCEPT !.rip = virt_addr_plus(@, 1)]
         ELSE IF Opcode(b) = "exit" THEN Die(k, "exited", 0)
         ELSE [k EXCEPT !.rip = b]

\* the tracee leaves its stop; a pending SIGSTOP stops it again at once
Restart(k) ==
    IF k.sigstop
    THEN [k EXCEPT !.sigstop = FALSE,
                   !.event = [kind |-> "stopped", info |-> SIGSTOP]]
    ELSE [k EXCEPT !.status = "running", !.event = NoEvent]

\* kill(pid, sig): ok is FALSE for ESRCH
sys_kill(w, pid, sig) ==
    LET k == w.kern
        hit == pid > 0 /\ pid = k.pid /\ k.status \in {"running", "stopped", "zombie"}
        w1 == Sys(w, [call |-> "kill", arg |-> sig, st |-> k.status])
    IN  [ok |-> hit,
         w |-> IF hit THEN [w1 EXCEPT !.kern = Deliver(k, sig)] ELSE w1]

\* waitpid(pid, &status, 0): returns the pending wait status; blocks while the
\* inferior is alive with nothing to report; fails (ECHILD) otherwise
sys_waitpid(w, pid) ==
    LET k == w.kern
        mine == pid > 0 /\ pid = k.pid /\ (k.child \/ k.traced)
        w1 == Sys(w, [call |-> "waitpid", arg |-> 0, st |-> k.status])
    IN  IF mine /\ k.event # NoEvent
        THEN [ok |-> TRUE, status |-> k.event,
              w |-> [w1 EXCEPT !.kern =
                        IF k.status = "zombie"
                        THEN [k EXCEPT !.status = "gone", !.traced = FALSE,
                                       !.event = NoEvent]
                        ELSE [k EXCEPT !.event = NoEvent]]]
        ELSE IF mine /\ Alive(k)
        THEN [ok |-> FALSE, status |-> NoEvent, w |-> [w1 EXCEPT !.blocked = TRUE]]
        ELSE [ok |-> FALSE, status |-> NoEvent, w |-> w1]

\* ptrace(PTRACE_ATTACH): the target becomes a tracee and is sent SIGSTOP
ptrace_attach(w, pid) ==
    LET k == w.kern
        hit == pid > 0 /\ pid = k.pid /\ Alive(k) /\ ~k.traced
        w1 == Sys(w, [call |-> "PTRACE_ATTACH", arg |-> pid, st |-> k.status])
    IN  [ok |-> hit,
         w |-> IF hit
               THEN [w1 EXCEPT !.kern =
                        [k EXCEPT !.traced = TRUE, !.status = "stopped",
                                  !.event = [kind |-> "stopped", info |-> SIGSTOP]]]
               ELSE w1]

\* ptrace(PTRACE_CONT, pid, nullptr, nullptr)
ptrace_cont(w, pid) ==
    LET k == w.kern
        hit == InPtraceStop(k, pid)
        w1 == Sys(w, [call |-> "PTRACE_CONT", arg |-> 0, st |-> k.status])
    IN  [ok |-> hit, w |-> IF hit THEN [w1 EXCEPT !.kern = Restart(k)] ELSE w1]

\* ptrace(PTRACE_SINGLESTEP): the tracee executes one instruction and stops
\* with SIGTRAP, unless the instruction ended or stopped it otherwise
ptrace_singlestep(w, pid) ==
    LET k == w.kern
        hit == InPtraceStop(k, pid)
        w1 == Sys(w, [call |-> "PTRACE_SINGLESTEP", arg |-> 0, st |-> k.status])
        k1 == Restart(k)
        k2 == IF k1.status = "running" THEN Instr(k1, w.mem) ELSE k1
        k3 == IF k2.status = "running" THEN Deliver(k2, SIGTRAP) ELSE k2
    IN  [ok |-> hit, w |-> IF hit THEN [w1 EXCEPT !.kern = k3] ELSE w1]

\* ptrace(PTRACE_DETACH, pid, nullptr, nullptr)
ptrace_detach(w, pid) ==
    LET k == w.kern
        hit == InPtraceStop(k, pid)
        w1 == Sys(w, [call |-> "PTRACE_DETACH", arg |-> 0, st |-> k.status])
    IN  [ok |-> hit,
         w |-> IF hit
               THEN [w1 EXCEPT !.kern =
                        [k EXCEPT !.traced = FALSE, !.event = NoEvent,
                                  !.sigstop = FALSE,
                                  !.status = IF k.sigstop THEN "stopped" ELSE "running"]]
               ELSE w1]

\* ptrace(PTRACE_PEEKDATA, pid, address): the bytes of the word at address
ptrace_peekdata(w, pid, address) ==
    LET hit == InPtraceStop(w.kern, pid) /\ WordMapped(address)
    IN  [ok |-> hit,
         data |-> IF hit THEN [i \in 1..WordBytes |-> w.mem[address + i - 1]]
                  ELSE <<>>,
         w |-> Sys(w, [call |-> "PTRACE_PEEKDATA", arg |-> address, st |-> w.kern.status])]

\* ptrace(PTRACE_POKEDATA, pid, address, data)
ptrace_pokedata(w, pid, address, data) ==
    LET hit == InPtraceStop(w.kern, pid) /\ WordMapped(address) /\ ~w.eio
        w1 == Sys(w, [call |-> "PTRACE_POKEDATA", arg |-> address, st |-> w.kern.status])
    IN  [ok |-> hit,
         w |-> IF hit
               THEN [w1 EXCEPT !.mem =
                        [a \in DOMAIN w.mem |->
                            IF a >= address /\ a < address + WordBytes
                            THEN data[a - address + 1] ELSE w.mem[a]]]
               ELSE w1]

(***************************************************************************)
(* stop_reason (process.cpp).                                              *)
(***************************************************************************)
\* a stop_reason that takes a death by signal for an exit
stop_reason_exit_only(wait_status) ==
    IF wait_status.kind \in {"exited", "signaled"}
    THEN [err |-> NoErr, reason |-> EXITED, info |-> wait_status.info]
    ELSE IF wait_status.kind = "stopped"
    THEN [err |-> NoErr, reason |-> STOPPED, info |-> wait_status.info]
    ELSE [err |-> "Got a wait_status which doesn't represent a non-running child",
          reason |-> STOPPED, info |-> 0]

\* stop_reason::stop_reason(int wait_status); err is the exception it throws
stop_reason(wait_status) ==
    IF wait_status.kind = "exited"
    THEN [err |-> NoErr, reason |-> EXITED, info |-> wait_status.info]
    ELSE IF wait_status.kind = "signaled"
    THEN [err |-> NoErr, reason |-> TERMINATED, info |-> wait_status.info]
    ELSE IF wait_status.kind = "stopped"
    THEN [err |-> NoErr, reason |-> STOPPED, info |-> wait_status.info]
    ELSE [err |-> "Got a wait_status which doesn't represent a non-running child",
          reason |-> STOPPED, info |-> 0]

(***************************************************************************)
(* The register cache (registers.cpp, process.cpp).                        *)
(***************************************************************************)
\* registers::m_data{} of a new process object
ZeroRegisters == [rip |-> 0, user |-> ZeroUser]

\* the offsets of u_debugreg[0..7] in struct user
DebugOffsets == [i \in 1..8 |-> 848 + 8 * (i - 1)]

\* read_all_registers that keeps only what PTRACE_GETREGS returned
read_all_registers_gprs(w) ==
    LET st == w.kern.status
        w1 == Sys(w, [call |-> "PTRACE_GETREGS", arg |-> 0, st |-> st])
        w2 == Sys(w1, [call |-> "PTRACE_GETFPREGS", arg |-> 0, st |-> st])
        w3 == [w2 EXCEPT !.log = @ \o [i \in 1..8 |->
                            [call |-> "PTRACE_PEEKUSER", arg |-> DebugOffsets[i],
                             st |-> st]]]
    IN  IF ~InPtraceStop(w.kern, w.m_pid)
        THEN Raise(w1, "Could not read GPR registers")
        ELSE [w3 EXCEPT !.m_registers.rip = w.kern.rip,
                        !.m_registers.user[80] = w.kern.user[80]]

\* process::read_all_registers : PTRACE_GETREGS and PTRACE_GETFPREGS into
\* the cache, then one PTRACE_PEEKUSER for each of the eight debug registers.
\* The requests fail together (no tracee in a stop), so the first one raises.
read_all_registers(w) ==
    LET st == w.kern.status
        w1 == Sys(w, [call |-> "PTRACE_GETREGS", arg |-> 0, st |-> st])
        w2 == Sys(w1, [call |-> "PTRACE_GETFPREGS", arg |-> 0, st |-> st])
        w3 == [w2 EXCEPT !.log = @ \o [i \in 1..8 |->
                            [call |-> "PTRACE_PEEKUSER", arg |-> DebugOffsets[i],
                             st |-> st]]]
    IN  IF ~InPtraceStop(w.kern, w.m_pid)
        THEN Raise(w1, "Could not read GPR registers")
        ELSE [w3 EXCEPT !.m_registers.rip = w.kern.rip,
                        !.m_registers.user = w.kern.user]

\* process::write_user_struct : PTRACE_POKEUSER of the word holding rip
write_user_struct(w, data) ==
    LET w1 == Sys(w, [call |-> "PTRACE_POKEUSER", arg |-> data, st |-> w.kern.status])
    IN  IF ~InPtraceStop(w.kern, w.m_pid)
        THEN Raise(w1, "Could not write to user struct")
        ELSE [w1 EXCEPT !.kern.rip = data]

\* registers::write for rip: the cache first, then the write-through
registers_write(w, val) ==
    LET w1 == [w EXCEPT !.m_registers.rip = val]
    IN  write_user_struct(w1, w1.m_registers.rip)

\* process::get_pc : rip as cached
get_pc(w) == w.m_registers.rip

\* process::set_pc
set_pc(w, address) == registers_write(w, address)

(***************************************************************************)
(* The register catalog and registers::read / registers::write for the     *)
(* registers of the user area other than rip.  A value is the bytes of the *)
(* alternative the variant holds, low byte first, and whether its type is  *)
(* signed.                                                                 *)
(***************************************************************************)
\* g_register_infos, the entries the model keeps
g_register_infos ==
    [rax |-> [size |-> 8, offset |-> 80, type |-> "gpr", format |-> "uint"],
     eax |-> [size |-> 4, offset |-> 80, type |-> "sub_gpr", format |-> "uint"],
     ax  |-> [size |-> 2, offset |-> 80, type |-> "sub_gpr", format |-> "uint"],
     al  |-> [size |-> 1, offset |-> 80, type |-> "sub_gpr", format |-> "uint"],
     ah  |-> [size |-> 1, offset |-> 81, type |-> "sub_gpr", format |-> "uint"],
     fcw |-> [size |-> 2, offset |-> 224, type |-> "fpr", format |-> "uint"],
     dr0 |-> [size |-> 8, offset |-> 848, type |-> "dr", format |-> "uint"],
     dr1 |-> [size |-> 8, offset |-> 856, type |-> "dr", format |-> "uint"],
     dr2 |-> [size |-> 8, offset |-> 864, type |-> "dr", format |-> "uint"],
     dr3 |-> [size |-> 8, offset |-> 872, type |-> "dr", format |-> "uint"],
     dr7 |-> [size |-> 8, offset |-> 904, type |-> "dr", format |-> "uint"]]

register_info_by_id(id) == g_register_infos[id]

\* info.offset & ~0b111
aligned_offset(info) == info.offset - (info.offset % WordBytes)

\* to_byte128 : the bytes of the value, then zeros up to 16 bytes
to_byte128(bytes) == [i \in 1..16 |-> IF i <= Len(bytes) THEN bytes[i] ELSE 0]

\* static_cast of a signed value to the unsigned type of n bytes
cast_unsigned(bytes, n) ==
    [i \in 1..n |-> IF i <= Len(bytes) THEN bytes[i]
                    ELSE IF bytes[Len(bytes)] >= 128 THEN 255 ELSE 0]

\* widen of registers.cpp, for the integer alternatives
widen(info, v) ==
    IF v.signed /\ info.format = "uint" /\ info.size \in {2, 4, 8}
    THEN to_byte128(cast_unsigned(v.bytes, info.size))
    ELSE to_byte128(v.bytes)

\* registers::read for a register of format uint: the info.size bytes at
\* info.offset of the cache
registers_read(regs, info) ==
    LET word == regs.user[aligned_offset(info)]
        first == info.offset - aligned_offset(info)
    IN  [i \in 1..info.size |-> word[first + i]]

\* ptrace(PTRACE_POKEUSER, pid, offset, data) as process::write_user_struct
\* issues it for a word of the user area; the kernel may refuse the value
write_user_struct_at(w, offset, data) ==
    LET w1 == Sys(w, [call |-> "PTRACE_POKEUSER", arg |-> offset, st |-> w.kern.status])
    IN  IF ~InPtraceStop(w.kern, w.m_pid) \/ w.eio
        THEN Raise(w1, "Could not write to user struct")
        ELSE [w1 EXCEPT !.kern.user[offset] = data]

\* process::write_fprs : PTRACE_SETFPREGS of the whole i387 area
write_fprs(w, i387) ==
    LET w1 == Sys(w, [call |-> "PTRACE_SETFPREGS", arg |-> 0, st |-> w.kern.status])
    IN  IF ~InPtraceStop(w.kern, w.m_pid) \/ w.eio
        THEN Raise(w1, "Could not set GPR registers")
        ELSE [w1 EXCEPT !.kern.user[224] = i387]

\* registers::write that writes through the word as it was before the copy
registers_write_info_stale(w, info, v) ==
    LET at == aligned_offset(info)
        first == info.offset - at
        wide == widen(info, v)
        word == [i \in 1..WordBytes |->
                    IF i > first /\ i <= first + info.size THEN wide[i - first]
                    ELSE w.m_registers.user[at][i]]
        w1 == [w EXCEPT !.m_registers.user[at] = word]
    IN  IF Len(v.bytes) > info.size
        THEN Raise(w, "sdb::registers::write called with mismatched register and value sizes")
        ELSE IF info.type = "fpr" THEN write_fprs(w1, w.m_registers.user[224])
        ELSE write_user_struct_at(w1, at, w.m_registers.user[at])

\* registers::write without the size check: the value is cut to the register
registers_write_info_cut(w, info, v) ==
    LET at == aligned_offset(info)
        first == info.offset - at
        wide == widen(info, v)
        word == [i \in 1..WordBytes |->
                    IF i > first /\ i <= first + info.size THEN wide[i - first]
                    ELSE w.m_registers.user[at][i]]
        w1 == [w EXCEPT !.m_registers.user[at] = word]
    IN  IF info.type = "fpr" THEN write_fprs(w1, w1.m_registers.user[224])
        ELSE write_user_struct_at(w1, at, w1.m_registers.user[at])

\* registers::write that builds the word from the value alone
registers_write_info_bare(w, info, v) ==
    LET at == aligned_offset(info)
        first == info.offset - at
        wide == widen(info, v)
        word == [i \in 1..WordBytes |->
                    IF i > first /\ i <= first + info.size THEN wide[i - first]
                    ELSE 0]
        w1 == [w EXCEPT !.m_registers.user[at] = word]
    IN  IF Len(v.bytes) > info.size
        THEN Raise(w, "sdb::registers::write called with mismatched register and value sizes")
        ELSE IF info.type = "fpr" THEN write_fprs(w1, w1.m_registers.user[224])
        ELSE write_user_struct_at(w1, at, w1.m_registers.user[at])

\* registers::write : the size check, the copy into the cache, the
\* write-through of the i387 area or of the aligned word that holds the
\* register
registers_write_info(w, info, v) ==
    LET at == aligned_offset(info)
        first == info.offset - at
        wide == widen(info, v)
        word == [i \in 1..WordBytes |->
                    IF i > first /\ i <= first + info.size THEN wide[i - first]
                    ELSE w.m_registers.user[at][i]]
        w1 == [w EXCEPT !.m_registers.user[at] = word]
    IN  IF Len(v.bytes) > info.size
        THEN Raise(w, "sdb::registers::write called with mismatched register and value sizes")
        ELSE IF info.type = "fpr" THEN write_fprs(w1, w1.m_registers.user[224])
        ELSE write_user_struct_at(w1, at, w1.m_registers.user[at])

\* registers::write_by_id
write_by_id(w, id, v) == registers_write_info(w, register_info_by_id(id), v)

(***************************************************************************)
(* stoppoint_collection (stoppoint_collection.hpp): a sequence of          *)
(* stoppoints in insertion order.  An iterator is an index; Len + 1 is     *)
(* std::end.                                                               *)
(***************************************************************************)
\* std::find_if : the first position of hits, std::end if there is none
FirstOf(points, hits) ==
    IF hits = {} THEN Len(points) + 1
    ELSE CHOOSE i \in hits : \A j \in hits : i <= j

find_by_id(points, id) ==
    FirstOf(points, {i \in 1..Len(points) : points[i].m_id = id})

find_by_address(points, address) ==
    FirstOf(points, {i \in 1..Len(points) : points[i].m_address = address})

contains_id(points, id) == find_by_id(points, id) # Len(points) + 1

contains_address(points, address) == find_by_address(points, address) # Len(points) + 1

enabled_stoppoint_at_address(points, address) ==
    /\ contains_address(points, address)
    /\ points[find_by_address(points, address)].m_is_enabled

\* get_by_id that hands out the first element of a collection that holds the id
get_by_id_first(w, points, id) ==
    LET it == find_by_id(points, id)
    IN  IF it = Len(points) + 1 THEN Raise(w, "Invalid stoppoint id")
        ELSE [w EXCEPT !.val = points[1].m_id, !.data = <<points[1].m_address>>]

\* stoppoint_collection::get_by_id : the element found, reported by its id
\* (val) and its address (data)
get_by_id(w, points, id) ==
    LET it == find_by_id(points, id)
    IN  IF it = Len(points) + 1 THEN Raise(w, "Invalid stoppoint id")
        ELSE [w EXCEPT !.val = points[it].m_id, !.data = <<points[it].m_address>>]

\* stoppoint_collection::get_by_address
get_by_address(w, points, address) ==
    LET it == find_by_address(points, address)
    IN  IF it = Len(points) + 1
        THEN Raise(w, "Stoppoint doesn't exists at given address")
        ELSE [w EXCEPT !.val = points[it].m_id, !.data = <<points[it].m_address>>]

\* stoppoint_collection::push
push(points, point) == Append(points, point)

\* an erase that drops the last element instead of the one at it
erase_last(points, it) == [i \in 1..(Len(points) - 1) |-> points[i]]

\* vector::erase(it)
erase(points, it) ==
    [i \in 1..(Len(points) - 1) |-> IF i < it THEN points[i] ELSE points[i + 1]]

(***************************************************************************)
(* breakpoint_site (breakpoint_site.cpp).  A site is addressed by its      *)
(* position it in w.m_breakpoints.                                         *)
(***************************************************************************)
\* a counter that is read and never advanced
get_next_id_stale(counter) == counter

\* get_next_id of breakpoint_site.cpp: return ++id_
get_next_id(counter) == counter + 1

\* breakpoint_site::breakpoint_site
breakpoint_site(id, addr) ==
    [m_id |-> id, m_address |-> addr, m_is_enabled |-> FALSE, m_saved_data |-> 0]

\* an enable that marks the site enabled before the write of the patch
breakpoint_site_enable_early(w, it) ==
    LET bp == w.m_breakpoints[it]
        r == ptrace_peekdata(w, w.m_pid, bp.m_address)
        w1 == [r.w EXCEPT !.m_breakpoints[it].m_saved_data = r.data[1],
                          !.m_breakpoints[it].m_is_enabled = TRUE]
        data_with_int3 == [r.data EXCEPT ![1] = SOFTWARE_BREAKPOINT_INSTRUCTION]
        p == ptrace_pokedata(w1, w.m_pid, bp.m_address, data_with_int3)
    IN  IF bp.m_is_enabled THEN w
        ELSE IF ~r.ok
        THEN Raise(r.w, "Enabling breakpoint site failed: Failed to fetch the contents")
        ELSE IF ~p.ok
        THEN Raise(p.w, "Enabling breakpoint site failed: Failed to set the breakpoint instruction")
        ELSE p.w

\* an enable without the test of m_is_enabled
breakpoint_site_enable_again(w, it) ==
    LET bp == w.m_breakpoints[it]
        r == ptrace_peekdata(w, w.m_pid, bp.m_address)
        w1 == [r.w EXCEPT !.m_breakpoints[it].m_saved_data = r.data[1]]
        data_with_int3 == [r.data EXCEPT ![1] = SOFTWARE_BREAKPOINT_INSTRUCTION]
        p == ptrace_pokedata(w1, w.m_pid, bp.m_address, data_with_int3)
    IN  IF ~r.ok
        THEN Raise(r.w, "Enabling breakpoint site failed: Failed to fetch the contents")
        ELSE IF ~p.ok
        THEN Raise(p.w, "Enabling breakpoint site failed: Failed to set the breakpoint instruction")
        ELSE [p.w EXCEPT !.m_breakpoints[it].m_is_enabled = TRUE]

\* an enable that writes int3 into a word of zeros instead of the word read
breakpoint_site_enable_clobbers(w, it) ==
    LET bp == w.m_breakpoints[it]
        r == ptrace_peekdata(w, w.m_pid, bp.m_address)
        w1 == [r.w EXCEPT !.m_breakpoints[it].m_saved_data = r.data[1]]
        data_with_int3 == [i \in 1..WordBytes |->
                             IF i = 1 THEN SOFTWARE_BREAKPOINT_INSTRUCTION ELSE 0]
        p == ptrace_pokedata(w1, w.m_pid, bp.m_address, data_with_int3)
    IN  IF bp.m_is_enabled THEN w
        ELSE IF ~r.ok
        THEN Raise(r.w, "Enabling breakpoint site failed: Failed to fetch the contents")
        ELSE IF ~p.ok
        THEN Raise(p.w, "Enabling breakpoint site failed: Failed to set the breakpoint instruction")
        ELSE [p.w EXCEPT !.m_breakpoints[it].m_is_enabled = TRUE]

\* breakpoint_site::enable
breakpoint_site_enable(w, it) ==
    LET bp == w.m_breakpoints[it]
        r == ptrace_peekdata(w, w.m_pid, bp.m_address)
        w1 == [r.w EXCEPT !.m_breakpoints[it].m_saved_data = r.data[1]]
        data_with_int3 == [r.data EXCEPT ![1] = SOFTWARE_BREAKPOINT_INSTRUCTION]
        p == ptrace_pokedata(w1, w.m_pid, bp.m_address, data_with_int3)
    IN  IF bp.m_is_enabled THEN w
        ELSE IF ~r.ok
        THEN Raise(r.w, "Enabling breakpoint site failed: Failed to fetch the contents")
        ELSE IF ~p.ok
        THEN Raise(p.w, "Enabling breakpoint site failed: Failed to set the breakpoint instruction")
        ELSE [p.w EXCEPT !.m_breakpoints[it].m_is_enabled = TRUE]

\* a disable that writes the saved byte into a word of zeros
breakpoint_site_disable_unmerged(w, it) ==
    LET bp == w.m_breakpoints[it]
        r == ptrace_peekdata(w, w.m_pid, bp.m_address)
        restored == [i \in 1..WordBytes |-> IF i = 1 THEN bp.m_saved_data ELSE 0]
        p == ptrace_pokedata(r.w, w.m_pid, bp.m_address, restored)
    IN  IF ~bp.m_is_enabled THEN w
        ELSE IF ~r.ok
        THEN Raise(r.w, "Disabling breakpoint site failed: Failed to fetch the contents")
        ELSE IF ~p.ok
        THEN Raise(p.w, "Disabling breakpoint site failed: Failed to remove the breakpoint instruction")
        ELSE [p.w EXCEPT !.m_breakpoints[it].m_is_enabled = FALSE]

\* breakpoint_site::disable
breakpoint_site_disable(w, it) ==
    LET bp == w.m_breakpoints[it]
        r == ptrace_peekdata(w, w.m_pid, bp.m_address)
        restored == [r.data EXCEPT ![1] = bp.m_saved_data]
        p == ptrace_pokedata(r.w, w.m_pid, bp.m_address, restored)
    IN  IF ~bp.m_is_enabled THEN w
        ELSE IF ~r.ok
        THEN Raise(r.w, "Disabling breakpoint site failed: Failed to fetch the contents")
        ELSE IF ~p.ok
        THEN Raise(p.w, "Disabling breakpoint site failed: Failed to remove the breakpoint instruction")
        ELSE [p.w EXCEPT !.m_breakpoints[it].m_is_enabled = FALSE]

\* remove_by_id that erases the site without disabling it
remove_by_id_enabled(w, id) ==
    LET it == find_by_id(w.m_breakpoints, id)
    IN  IF it = Len(w.m_breakpoints) + 1 THEN Raise(w, "Invalid stoppoint id")
        ELSE [w EXCEPT !.m_breakpoints = erase(@, it)]

\* stoppoint_collection<breakpoint_site>::remove_by_id
remove_by_id(w, id) ==
    LET it == find_by_id(w.m_breakpoints, id)
        d == breakpoint_site_disable(w, it)
    IN  IF it = Len(w.m_breakpoints) + 1 THEN Raise(w, "Invalid stoppoint id")
        ELSE IF d.err # NoErr THEN d
        ELSE [d EXCEPT !.m_breakpoints = erase(@, it)]

\* stoppoint_collection<breakpoint_site>::remove_by_address
remove_by_address(w, address) ==
    LET it == find_by_address(w.m_breakpoints, address)
        d == breakpoint_site_disable(w, it)
    IN  IF it = Len(w.m_breakpoints) + 1
        THEN Raise(w, "Stoppoint doesn't exists at given address")
        ELSE IF d.err # NoErr THEN d
        ELSE [d EXCEPT !.m_breakpoints = erase(@, it)]

\* stoppoint_collection::for_each with an f that notes the id of the point it
\* is given
for_each(w, points) == [w EXCEPT !.data = [i \in 1..Len(points) |-> points[i].m_id]]

\* stoppoint_collection::size
stoppoints_size(points) == Len(points)

\* stoppoint_collection::empty
stoppoints_empty(points) == Len(points) = 0

(***************************************************************************)
(* watchpoint (watchpoint.cpp).                                            *)
(***************************************************************************)
RECURSIVE BitAnd(_, _)
\* the & of two unsigned numbers
BitAnd(a, b) ==
    IF a = 0 \/ b = 0 THEN 0
    ELSE (a % 2) * (b % 2) + 2 * BitAnd(a \div 2, b \div 2)

\* get_next_id of watchpoint.cpp: return ++id
watchpoint_get_next_id(counter) == counter + 1

\* watchpoint::watchpoint : the id is taken in the member initialisers, the
\* alignment is checked in the body
watchpoint(w, address, mode, size) ==
    LET id == watchpoint_get_next_id(w.wp_id)
        w1 == [w EXCEPT !.wp_id = id]
    IN  IF BitAnd(address, size - 1) # 0
        THEN [w |-> Raise(w1, "Watchpoint must be aligned to size"),
              point |-> <<>>]
        ELSE [w |-> w1,
              point |-> [m_id |-> id, m_address |-> address, m_mode |-> mode,
                         m_size |-> size, m_is_enabled |-> FALSE,
                         m_hardware_register_index |-> -1]]

(***************************************************************************)
(* Hardware stoppoints: the debug registers dr0 to dr3 hold the addresses, *)
(* dr7 the local-enable bit 2i and the condition and length nibble at bit  *)
(* 16 + 4i of slot i.  dr7 is kept as the bytes of the cached word: byte 1 *)
(* holds the enable bits, byte 3 the nibbles of slots 0 and 1, byte 4      *)
(* those of slots 2 and 3.                                                 *)
(***************************************************************************)
HardwareSlots == 0..3

\* the register of the address of a slot
DebugAddressRegister(slot) ==
    CASE slot = 0 -> "dr0" [] slot = 1 -> "dr1" [] slot = 2 -> "dr2" [] slot = 3 -> "dr3"

\* bit 2 * slot of dr7
LocalEnable(dr7, slot) == (dr7[1] \div (2 ^ (2 * slot))) % 2 = 1

\* bits 16 + 4 * slot .. 19 + 4 * slot of dr7
ControlNibble(dr7, slot) == (dr7[3 + slot \div 2] \div (16 ^ (slot % 2))) % 16

\* dr7 with the local-enable bit of the slot set or cleared
WithLocalEnable(dr7, slot, on) ==
    [dr7 EXCEPT ![1] = @ - (IF LocalEnable(dr7, slot) THEN 2 ^ (2 * slot) ELSE 0)
                         + (IF on THEN 2 ^ (2 * slot) ELSE 0)]

\* dr7 with the nibble of the slot replaced
WithControlNibble(dr7, slot, nibble) ==
    [dr7 EXCEPT ![3 + slot \div 2] =
        @ - ControlNibble(dr7, slot) * (16 ^ (slot % 2)) + nibble * (16 ^ (slot % 2))]

\* the condition bits of a mode: 00 execute, 01 write, 11 read/write
encode_hardware_stoppoint_mode(mode) ==
    CASE mode = "EXECUTE" -> 0 [] mode = "WRITE" -> 1 [] mode = "READ_WRITE" -> 3

\* the length bits of a size: 00 one byte, 01 two, 10 eight, 11 four
encode_hardware_stoppoint_size(size) ==
    CASE size = 1 -> 0 [] size = 2 -> 1 [] size = 8 -> 2 [] size = 4 -> 3

\* the nibble of a mode and a size; execute implies the length 00
EncodedControl(mode, size) ==
    encode_hardware_stoppoint_mode(mode)
        + 4 * (IF mode = "EXECUTE" THEN 0 ELSE encode_hardware_stoppoint_size(size))

\* the slots whose local-enable bit is clear in the cached dr7
FreeSlots(regs) ==
    {i \in HardwareSlots :
        ~LocalEnable(registers_read(regs, register_info_by_id("dr7")), i)}

\* the free-slot allocator: the first slot with local-enable clear in the
\* cached dr7; the slot is returned in val
find_free_stoppoint_register(w) ==
    LET free == FreeSlots(w.m_registers)
    IN  IF free = {} THEN Raise(w, "no free debug registers")
        ELSE [w EXCEPT !.val = CHOOSE i \in free : \A j \in free : i <= j]

\* an address as the eight bytes of a std::uint64_t
AddressValue(address) ==
    [bytes |-> [i \in 1..WordBytes |-> IF i = 1 THEN address ELSE 0],
     signed |-> FALSE]

\* install: allocate a slot, write the address to its register, update and
\* write dr7, return the slot
set_hardware_stoppoint(w, address, mode, size) ==
    LET w1 == find_free_stoppoint_register(w)
        slot == w1.val
        w2 == write_by_id(w1, DebugAddressRegister(slot), AddressValue(address))
        dr7 == registers_read(w2.m_registers, register_info_by_id("dr7"))
        control == WithControlNibble(WithLocalEnable(dr7, slot, TRUE), slot,
                                     EncodedControl(mode, size))
        w3 == write_by_id(w2, "dr7", [bytes |-> control, signed |-> FALSE])
    IN  IF w1.err # NoErr THEN w1
        ELSE IF w2.err # NoErr THEN w2
        ELSE IF w3.err # NoErr THEN w3
        ELSE [w3 EXCEPT !.val = slot]

\* process::set_watchpoint
set_watchpoint(w, id, address, mode, size) ==
    set_hardware_stoppoint(w, address, mode, size)

\* process::clear_hardware_stoppoint : zero the address register of the
\* slot, clear its local-enable bit and its nibble in dr7
clear_hardware_stoppoint(w, index) ==
    LET w1 == write_by_id(w, DebugAddressRegister(index), AddressValue(0))
        dr7 == registers_read(w1.m_registers, register_info_by_id("dr7"))
        control == WithControlNibble(WithLocalEnable(dr7, index, FALSE), index, 0)
        w2 == write_by_id(w1, "dr7", [bytes |-> control, signed |-> FALSE])
    IN  IF w1.err # NoErr THEN w1 ELSE w2

\* watchpoint::enable that asks for a slot although it is enabled
watchpoint_enable_again(w, it) ==
    LET point == w.m_watchpoints[it]
        w1 == set_watchpoint(w, point.m_id, point.m_address, point.m_mode,
                             point.m_size)
    IN  IF w1.err # NoErr THEN w1
        ELSE [w1 EXCEPT !.m_watchpoints[it].m_hardware_register_index = w1.val,
                        !.m_watchpoints[it].m_is_enabled = TRUE]

\* watchpoint::enable
watchpoint_enable(w, it) ==
    LET point == w.m_watchpoints[it]
        w1 == set_watchpoint(w, point.m_id, point.m_address, point.m_mode,
                             point.m_size)
    IN  IF point.m_is_enabled THEN w
        ELSE IF w1.err # NoErr THEN w1
        ELSE [w1 EXCEPT !.m_watchpoints[it].m_hardware_register_index = w1.val,
                        !.m_watchpoints[it].m_is_enabled = TRUE]

\* watchpoint::disable that only drops the flag
watchpoint_disable_flag(w, it) ==
    LET point == w.m_watchpoints[it]
    IN  IF ~point.m_is_enabled THEN w
        ELSE [w EXCEPT !.m_watchpoints[it].m_is_enabled = FALSE]

\* watchpoint::disable
watchpoint_disable(w, it) ==
    LET point == w.m_watchpoints[it]
        w1 == clear_hardware_stoppoint(w, point.m_hardware_register_index)
    IN  IF ~point.m_is_enabled THEN w
        ELSE IF w1.err # NoErr THEN w1
        ELSE [w1 EXCEPT !.m_watchpoints[it].m_is_enabled = FALSE]

\* watchpoints().get_by_id(id).enable()
enable_watchpoint_by_id(w, id) ==
    LET it == find_by_id(w.m_watchpoints, id)
    IN  IF it = Len(w.m_watchpoints) + 1 THEN Raise(w, "Invalid stoppoint id")
        ELSE watchpoint_enable(w, it)

\* watchpoints().get_by_id(id).disable()
disable_watchpoint_by_id(w, id) ==
    LET it == find_by_id(w.m_watchpoints, id)
    IN  IF it = Len(w.m_watchpoints) + 1 THEN Raise(w, "Invalid stoppoint id")
        ELSE watchpoint_disable(w, it)

(***************************************************************************)
(* pipe (pipe.cpp): the error channel of launch.  buf is what has been     *)
(* written and not read; writers counts the open write ends (the parent's  *)
(* and, after fork, the child's).                                          *)
(***************************************************************************)
\* pipe::pipe ; closes counts the close() calls made on each of the two
\* descriptors pipe2 returned
pipe(close_on_exec) ==
    [fds |-> <<3, 4>>, close_on_exec |-> close_on_exec, buf |-> "", writers |-> 1,
     closes |-> <<0, 0>>]

\* pipe::close_write
close_write(ch) ==
    IF ch.fds[2] = -1 THEN ch
    ELSE [ch EXCEPT !.fds[2] = -1, !.writers = @ - 1, !.closes[2] = @ + 1]

\* close_read that closes whatever the state of the end is
close_read_unchecked(ch) ==
    [ch EXCEPT !.fds[1] = -1, !.closes[1] = @ + 1]

\* pipe::close_read
close_read(ch) ==
    IF ch.fds[1] = -1 THEN ch
    ELSE [ch EXCEPT !.fds[1] = -1, !.closes[1] = @ + 1]

\* pipe::~pipe
pipe_destroy(ch) == close_write(close_read(ch))

\* pipe::write : the bytes are in the pipe; the write fails on a closed end
pipe_write(ch, data) ==
    IF ch.fds[2] = -1 THEN [err |-> "Could not write to pipe", ch |-> ch]
    ELSE [err |-> NoErr, ch |-> [ch EXCEPT !.buf = data]]

\* no pipe object has been made
NoChannel ==
    [live |-> FALSE, made |-> 0, op |-> "none", prev |-> "none", err |-> NoErr,
     p |-> pipe(FALSE)]

\* pipe::read : the bytes written, or nothing at end-of-file; blocked while
\* the pipe is empty and a write end is open
pipe_read(ch) ==
    [blocked |-> ch.fds[1] # -1 /\ ch.buf = "" /\ ch.writers > 0,
     err |-> IF ch.fds[1] = -1 THEN "Could not read from pipe" ELSE NoErr,
     data |-> ch.buf,
     ch |-> [ch EXCEPT !.buf = ""]]

\* error::exit_with_errno : the child writes the message and exits, which
\* closes its write end
exit_with_errno(ch, prefix) == [ch EXCEPT !.buf = prefix, !.writers = @ - 1]

(***************************************************************************)
(* process (process.cpp).                                                  *)
(***************************************************************************)
\* a process object that starts in the state running
process_starts_running(w, pid, terminate_on_end, is_attached) ==
    [w EXCEPT !.obj = TRUE, !.m_pid = pid, !.m_terminate_on_end = terminate_on_end,
              !.m_is_attached = is_attached, !.m_state = RUNNING,
              !.m_registers = ZeroRegisters, !.m_breakpoints = <<>>,
              !.m_watchpoints = <<>>]

\* process::process(pid, terminate_on_end, is_attached)
process(w, pid, terminate_on_end, is_attached) ==
    [w EXCEPT !.obj = TRUE, !.m_pid = pid, !.m_terminate_on_end = terminate_on_end,
              !.m_is_attached = is_attached, !.m_state = STOPPED,
              !.m_registers = ZeroRegisters, !.m_breakpoints = <<>>,
              !.m_watchpoints = <<>>]

\* wait_on_signal that leaves the program counter behind the INT3
wait_on_signal_no_rewind(w) ==
    LET r == sys_waitpid(w, w.m_pid)
        reason == stop_reason(r.status)
        w1 == [r.w EXCEPT !.m_state = reason.reason,
                          !.ret = [kind |-> reason.reason, info |-> reason.info]]
    IN  IF r.w.blocked THEN r.w
        ELSE IF ~r.ok THEN Raise(r.w, "waitpid failed")
        ELSE IF reason.err # NoErr THEN Raise(r.w, reason.err)
        ELSE IF w1.m_is_attached /\ w1.m_state = STOPPED
        THEN read_all_registers(w1)
        ELSE w1

\* process::wait_on_signal
wait_on_signal(w) ==
    LET r == sys_waitpid(w, w.m_pid)
        reason == stop_reason(r.status)
        w1 == [r.w EXCEPT !.m_state = reason.reason,
                          !.ret = [kind |-> reason.reason, info |-> reason.info]]
        w2 == read_all_registers(w1)
        instruction_start == virt_addr_minus(get_pc(w2), 1)
    IN  IF r.w.blocked THEN r.w
        ELSE IF ~r.ok THEN Raise(r.w, "waitpid failed")
        ELSE IF reason.err # NoErr THEN Raise(r.w, reason.err)
        ELSE IF w1.m_is_attached /\ w1.m_state = STOPPED
        THEN IF w2.err # NoErr THEN w2
             ELSE IF /\ reason.info = SIGTRAP
                     /\ enabled_stoppoint_at_address(w2.m_breakpoints, instruction_start)
             THEN set_pc(w2, instruction_start)
             ELSE w2
        ELSE w1

\* resume that does not look at the result of PTRACE_CONT
resume_cont_unchecked(w) ==
    [ptrace_cont(w, w.m_pid).w EXCEPT !.m_state = RUNNING]

\* process::resume, its last two statements: PTRACE_CONT, then the state
resume_cont(w) ==
    LET c == ptrace_cont(w, w.m_pid)
    IN  IF ~c.ok THEN Raise(c.w, "Could not resume")
        ELSE [c.w EXCEPT !.m_state = RUNNING]

\* resume that steps over the site at the program counter but does not
\* enable it again
resume_leaves_disabled(w) ==
    LET pc == get_pc(w)
        it == find_by_address(w.m_breakpoints, pc)
        a == breakpoint_site_disable(w, it)
        s == ptrace_singlestep(a, a.m_pid)
        b == wait_on_signal(s.w)
        w1 == IF enabled_stoppoint_at_address(w.m_breakpoints, pc)
              THEN IF a.err # NoErr THEN a
                   ELSE IF ~s.ok THEN Raise(s.w, "Failed a single step")
                   ELSE b
              ELSE w
    IN  IF w1.err # NoErr \/ w1.blocked THEN w1
        ELSE resume_cont(w1)

\* process::resume
resume(w) ==
    LET pc == get_pc(w)
        it == find_by_address(w.m_breakpoints, pc)
        a == breakpoint_site_disable(w, it)
        s == ptrace_singlestep(a, a.m_pid)
        b == wait_on_signal(s.w)
        e == breakpoint_site_enable(b, it)
        w1 == IF enabled_stoppoint_at_address(w.m_breakpoints, pc)
              THEN IF a.err # NoErr THEN a
                   ELSE IF ~s.ok THEN Raise(s.w, "Failed a single step")
                   ELSE IF b.err # NoErr \/ b.blocked THEN b
                   ELSE e
              ELSE w
    IN  IF w1.err # NoErr \/ w1.blocked THEN w1
        ELSE resume_cont(w1)

\* process::step_instruction
step_instruction(w) ==
    LET pc == get_pc(w)
        at_bp == enabled_stoppoint_at_address(w.m_breakpoints, pc)
        bp_to_enable == find_by_address(w.m_breakpoints, pc)
        a == IF at_bp THEN breakpoint_site_disable(w, bp_to_enable) ELSE w
        s == ptrace_singlestep(a, a.m_pid)
        b == wait_on_signal(s.w)
    IN  IF a.err # NoErr THEN a
        ELSE IF ~s.ok THEN Raise(s.w, "Could not single step")
        ELSE IF b.err # NoErr \/ b.blocked THEN b
        ELSE IF at_bp THEN breakpoint_site_enable(b, bp_to_enable)
        ELSE b

\* the loop of read_memory without the split at the pages
remote_descs_whole(address, amount) ==
    IF amount = 0 THEN <<>>
    ELSE <<[iov_base |-> address, iov_len |-> amount]>>

RECURSIVE remote_descs(_, _)
\* process::read_memory, its while loop: the ranges of the inferior to read,
\* none of them across the end of a page
remote_descs(address, amount) ==
    LET up_to_next_page == PageSize - BitAnd(address, PageSize - 1)
        chunk_size == IF amount < up_to_next_page THEN amount ELSE up_to_next_page
    IN  IF amount = 0 THEN <<>>
        ELSE <<[iov_base |-> address, iov_len |-> chunk_size]>>
                \o remote_descs(virt_addr_plus(address, chunk_size),
                                amount - chunk_size)

\* process::read_memory : one process_vm_readv of the ranges, which
\* transfers [address, address + amount) whole or not at all
read_memory(w, address, amount) ==
    LET w0 == [w EXCEPT !.iov = remote_descs(address, amount)]
        w1 == Sys(w0, [call |-> "process_vm_readv", arg |-> address,
                       st |-> w.kern.status])
        hit == /\ w.m_pid > 0 /\ w.m_pid = w.kern.pid /\ Alive(w.kern)
               /\ \A i \in 0..(amount - 1) : Mapped(address + i)
    IN  IF ~hit THEN Raise(w1, "Could not read process memory")
        ELSE [w1 EXCEPT !.data = [i \in 1..amount |-> w.mem[address + i - 1]]]

\* a range check that leaves out the lower bound
in_range_open(m_address, low, high) == low < m_address /\ m_address < high

\* breakpoint_site::in_range
in_range(m_address, low, high) == low <= m_address /\ m_address < high

\* process::read_memory_without_traps : read_memory, with the byte of every
\* enabled site in the range replaced by the byte the site saved
read_memory_without_traps(w, address, amount) ==
    LET r == read_memory(w, address, amount)
        high == virt_addr_plus(address, amount)
        sites == {i \in 1..Len(w.m_breakpoints) :
                    /\ w.m_breakpoints[i].m_is_enabled
                    /\ in_range(w.m_breakpoints[i].m_address, address, high)}
        site_at(a) == CHOOSE i \in sites : w.m_breakpoints[i].m_address = a
    IN  IF r.err # NoErr THEN r
        ELSE [r EXCEPT !.data =
                [k \in 1..amount |->
                    IF \E i \in sites : w.m_breakpoints[i].m_address = address + k - 1
                    THEN w.m_breakpoints[site_at(address + k - 1)].m_saved_data
                    ELSE r.data[k]]]

RECURSIVE write_memory_from(_, _, _, _)
RECURSIVE write_memory_from_zeros(_, _, _, _)
\* write_memory that fills the rest of the last word with zeros
write_memory_from_zeros(w, address, data, written) ==
    LET remaining == Len(data) - written
        at == virt_addr_plus(address, written)
        read == read_memory(w, at, WordBytes)
        word == IF remaining >= WordBytes
                THEN [i \in 1..WordBytes |-> data[written + i]]
                ELSE [i \in 1..WordBytes |->
                        IF i <= remaining THEN data[written + i] ELSE 0]
        w1 == IF remaining >= WordBytes THEN w ELSE [read EXCEPT !.data = <<>>]
        p == ptrace_pokedata(w1, w.m_pid, at, word)
    IN  IF written >= Len(data) THEN w
        ELSE IF remaining < WordBytes /\ read.err # NoErr THEN read
        ELSE IF ~p.ok THEN Raise(p.w, "Failed to write memory")
        ELSE write_memory_from_zeros(p.w, address, data, written + WordBytes)

\* process::write_memory, its loop from the offset written on
write_memory_from(w, address, data, written) ==
    LET remaining == Len(data) - written
        at == virt_addr_plus(address, written)
        read == read_memory(w, at, WordBytes)
        word == IF remaining >= WordBytes
                THEN [i \in 1..WordBytes |-> data[written + i]]
                ELSE [i \in 1..WordBytes |->
                        IF i <= remaining THEN data[written + i] ELSE read.data[i]]
        w1 == IF remaining >= WordBytes THEN w ELSE [read EXCEPT !.data = <<>>]
        p == ptrace_pokedata(w1, w.m_pid, at, word)
    IN  IF written >= Len(data) THEN w
        ELSE IF remaining < WordBytes /\ read.err # NoErr THEN read
        ELSE IF ~p.ok THEN Raise(p.w, "Failed to write memory")
        ELSE write_memory_from(p.w, address, data, written + WordBytes)

\* process::write_memory
write_memory(w, address, data) == write_memory_from(w, address, data, 0)

\* create_breakpoint_site without the look-up of the address
create_breakpoint_site_unchecked(w, address) ==
    LET id == get_next_id(w.id_)
    IN  [w EXCEPT !.id_ = id,
                  !.m_breakpoints = push(@, breakpoint_site(id, address)),
                  !.val = id]

\* process::create_breakpoint_site
create_breakpoint_site(w, address) ==
    LET id == get_next_id(w.id_)
    IN  IF contains_address(w.m_breakpoints, address)
        THEN Raise(w, "Breakpoint site already created at address")
        ELSE [w EXCEPT !.id_ = id,
                       !.m_breakpoints = push(@, breakpoint_site(id, address)),
                       !.val = id]

\* process::create_watchpoint
create_watchpoint(w, address, mode, size) ==
    LET c == watchpoint(w, address, mode, size)
    IN  IF contains_address(w.m_watchpoints, address)
        THEN Raise(w, "Watchpoint already created at address")
        ELSE IF c.w.err # NoErr THEN c.w
        ELSE [c.w EXCEPT !.m_watchpoints = push(@, c.point), !.val = c.point.m_id]

\* a destructor that detaches without stopping a running inferior first
destroy_attached_running(w) ==
    sys_kill(ptrace_detach(w, w.m_pid).w, w.m_pid, SIGCONT).w

\* process::~process, the branch of an attached process: stop it if it
\* runs, detach, continue it
destroy_attached(w) ==
    LET s == sys_kill(w, w.m_pid, SIGSTOP).w
        a == IF w.m_state = RUNNING THEN sys_waitpid(s, w.m_pid).w ELSE w
        d == ptrace_detach(a, w.m_pid).w
    IN  sys_kill(d, w.m_pid, SIGCONT).w

\* a destructor that kills the child and does not reap it
destroy_terminate_unreaped(w) == sys_kill(w, w.m_pid, SIGKILL).w

\* process::~process, the branch of terminate_on_end: kill and reap
destroy_terminate(w) ==
    sys_waitpid(sys_kill(w, w.m_pid, SIGKILL).w, w.m_pid).w

\* process::~process; the members (register cache, collections) go with it
destroy(w) ==
    LET w1 == IF w.m_is_attached THEN destroy_attached(w) ELSE w
        w2 == IF w.m_pid = 0 THEN w
              ELSE IF w.m_terminate_on_end THEN destroy_terminate(w1)
              ELSE w1
    IN  [w2 EXCEPT !.obj = FALSE, !.m_pid = 0, !.m_terminate_on_end = FALSE,
                   !.m_is_attached = FALSE, !.m_state = STOPPED,
                   !.m_registers = ZeroRegisters, !.m_breakpoints = <<>>,
                   !.m_watchpoints = <<>>]

\* an exception leaves the scope of the unique_ptr that owns the object
unwind(w) == IF w.err # NoErr /\ w.obj THEN destroy(w) ELSE w

\* the message the child of launch reports before a successful exec, "" if
\* it reaches the exec and the exec succeeds
child_message(debug, stdout_replacement, env) ==
    IF stdout_replacement /\ ~env.dup2_ok THEN "stdout replacement failed"
    ELSE IF debug /\ ~env.traceme_ok THEN "Tracing failed"
    ELSE IF ~env.exec_ok THEN "exec failed"
    ELSE ""

\* the child of launch when the parent next looks at it: dead after
\* exit(-1), stopped by the SIGTRAP of exec if it asked for TRACEME, running
\* the program otherwise
child(pid, debug, stdout_replacement, env) ==
    LET traceme == debug /\ (~stdout_replacement \/ env.dup2_ok) /\ env.traceme_ok
        born == [pid |-> pid, status |-> "running", traced |-> traceme,
                 child |-> TRUE, rip |-> 0, event |-> NoEvent, sigstop |-> FALSE,
                 user |-> ExecUser]
    IN  IF child_message(debug, stdout_replacement, env) # ""
        THEN Die(born, "exited", EXIT_FAILURE_STATUS)
        ELSE IF traceme THEN Deliver(born, SIGTRAP)
        ELSE born

\* launch that does not look at what it read from the error channel
launch_check_ignored(w, data) == w

\* process::launch, its end: the bytes of the error channel are the error
launch_check(w, data) ==
    IF data # "" THEN Raise(w, data) ELSE w

\* launch that reads the error channel while its own write end is open
launch_keeps_write_end(w, pid, debug, stdout_replacement, env) ==
    LET channel == pipe(TRUE)
        forked == [channel EXCEPT !.writers = @ + 1]
        msg == child_message(debug, stdout_replacement, env)
        ch1 == IF msg # "" THEN exit_with_errno(forked, msg)
               ELSE [forked EXCEPT !.writers = IF channel.close_on_exec THEN @ - 1 ELSE @]
        w0 == [w EXCEPT !.kern = child(pid, debug, stdout_replacement, env)]
        p == process(w0, pid, TRUE, debug)
        p1 == IF debug THEN wait_on_signal(p) ELSE p
        rd == pipe_read(ch1)
    IN  IF ~env.fork_ok THEN Raise(w, "fork failed")
        ELSE IF p1.err # NoErr \/ p1.blocked THEN unwind(p1)
        ELSE IF rd.blocked THEN [p1 EXCEPT !.blocked = TRUE]
        ELSE unwind(launch_check(p1, rd.data))

\* process::launch
launch(w, pid, debug, stdout_replacement, env) ==
    LET channel == pipe(TRUE)
        forked == [channel EXCEPT !.writers = @ + 1]
        msg == child_message(debug, stdout_replacement, env)
        ch1 == IF msg # "" THEN exit_with_errno(forked, msg)
               ELSE [forked EXCEPT !.writers = IF channel.close_on_exec THEN @ - 1 ELSE @]
        w0 == [w EXCEPT !.kern = child(pid, debug, stdout_replacement, env)]
        p == process(w0, pid, TRUE, debug)
        p1 == IF debug THEN wait_on_signal(p) ELSE p
        rd == pipe_read(close_write(ch1))
    IN  IF ~env.fork_ok THEN Raise(w, "fork failed")
        ELSE IF p1.err # NoErr \/ p1.blocked THEN unwind(p1)
        ELSE IF rd.blocked THEN [p1 EXCEPT !.blocked = TRUE]
        ELSE unwind(launch_check(p1, rd.data))

\* an argument check that lets pid 0 through
invalid_pid_negative(pid) == pid < 0

\* process::attach, its argument check
invalid_pid(pid) == pid <= 0

\* process::attach
attach(w, pid) ==
    LET a == ptrace_attach(w, pid)
        p == process(a.w, pid, FALSE, TRUE)
    IN  IF invalid_pid(pid) THEN Raise(w, "Invalid PID")
        ELSE IF ~a.ok THEN Raise(a.w, "Could not attach")
        ELSE unwind(wait_on_signal(p))

\* breakpoint_sites().get_by_id(id).enable()
enable_by_id(w, id) ==
    LET it == find_by_id(w.m_breakpoints, id)
    IN  IF it = Len(w.m_breakpoints) + 1 THEN Raise(w, "Invalid stoppoint id")
        ELSE breakpoint_site_enable(w, it)

\* breakpoint_sites().get_by_id(id).disable()
disable_by_id(w, id) ==
    LET it == find_by_id(w.m_breakpoints, id)
    IN  IF it = Len(w.m_breakpoints) + 1 THEN Raise(w, "Invalid stoppoint id")
        ELSE breakpoint_site_disable(w, it)

(***************************************************************************)
(* The state machine.                                                      *)
(***************************************************************************)
\* the programs an inferior may run: 1 exits at once, 2 exits after one
\* instruction (nop, exit), 3 runs for ever (nop, then a jump back to
\* address 0); the bytes behind are exits
Program(i) ==
    [a \in 0..(MemSize - 1) |->
        IF a = 0 /\ i # 1 THEN 144
        ELSE IF a = 1 /\ i = 3 THEN 0
        ELSE 195]

Programs == {Program(1), Program(2), Program(3)}

\* the pid fork returns for the n-th process object
ChildPid(n) == 100 + n

\* the pid of the process that exists outside the debugger
ExternalPid(n) == 200 + n

\* a process that was started outside the debugger and is running
ExternalProcess(pid) ==
    [pid |-> pid, status |-> "running", traced |-> FALSE, child |-> FALSE,
     rip |-> 1, event |-> NoEvent, sigstop |-> FALSE, user |-> ExecUser]

\* what the child of launch comes to: "no child", "exec", or its message
ChildFate(debug, stdout_replacement, env) ==
    IF ~env.fork_ok THEN "no child"
    ELSE IF child_message(debug, stdout_replacement, env) = "" THEN "exec"
    ELSE child_message(debug, stdout_replacement, env)

NoCall ==
    [op |-> "none", arg |-> 0, debug |-> FALSE, in |-> "", err |-> NoErr,
     ret |-> NoEvent, val |-> 0, log |-> <<>>, data |-> <<>>,
     reg |-> "", value |-> NoValue, iov |-> <<>>, issued |-> <<>>,
     before |-> <<>>]

\* before any process object exists
Blank(prog) ==
    [obj |-> FALSE, m_pid |-> 0, m_terminate_on_end |-> FALSE,
     m_is_attached |-> FALSE, m_state |-> STOPPED, m_registers |-> ZeroRegisters,
     m_breakpoints |-> <<>>, m_watchpoints |-> <<>>, id_ |-> 0, wp_id |-> 0,
     kern |-> NoProcess, mem |-> prog, err |-> NoErr, ret |-> NoEvent, val |-> 0,
     log |-> <<>>, data |-> <<>>, eio |-> FALSE, reg |-> "", value |-> NoValue,
     iov |-> <<>>, blocked |-> FALSE]

\* the state is the world w
Is(w) ==
    /\ obj = w.obj
    /\ m_pid = w.m_pid
    /\ m_terminate_on_end = w.m_terminate_on_end
    /\ m_is_attached = w.m_is_attached
    /\ m_state = w.m_state
    /\ m_registers = w.m_registers
    /\ m_breakpoints = w.m_breakpoints
    /\ m_watchpoints = w.m_watchpoints
    /\ id_ = w.id_
    /\ wp_id = w.wp_id
    /\ kern = w.kern
    /\ mem = w.mem

Init ==
    /\ \E prog \in Programs : Is(Blank(prog))
    /\ last = NoCall
    /\ sessions = 0
    /\ chan = NoChannel

\* enable() of the site id turns a disabled site into an enabled one
Enables(id) ==
    \E i \in 1..Len(m_breakpoints) :
       m_breakpoints[i].m_id = id /\ ~m_breakpoints[i].m_is_enabled

\* the byte at the address of the site id, as it is now
ByteBefore(id) ==
    LET i == find_by_id(m_breakpoints, id)
    IN  id :> mem[m_breakpoints[i].m_address]

\* the call returns (normally or by an exception): its world becomes the state;
\* last.issued are the ids create_breakpoint_site has returned so far and
\* last.before[id] the byte that was at the address of the site id just
\* before the last enable() that enabled it
Commit(w, op, arg, debug, in) ==
    /\ ~w.blocked
    /\ chan' = chan
    /\ obj' = w.obj
    /\ m_pid' = w.m_pid
    /\ m_terminate_on_end' = w.m_terminate_on_end
    /\ m_is_attached' = w.m_is_attached
    /\ m_state' = w.m_state
    /\ m_registers' = w.m_registers
    /\ m_breakpoints' = w.m_breakpoints
    /\ m_watchpoints' = w.m_watchpoints
    /\ id_' = w.id_
    /\ wp_id' = w.wp_id
    /\ kern' = w.kern
    /\ mem' = w.mem
    /\ last' = [op |-> op, arg |-> arg, debug |-> debug, in |-> in, err |-> w.err,
                ret |-> w.ret, val |-> w.val, log |-> w.log, data |-> w.data,
                reg |-> w.reg, value |-> w.value, iov |-> w.iov,
                issued |-> IF op = "create_breakpoint_site" /\ w.err = NoErr
                           THEN Append(last.issued, w.val) ELSE last.issued,
                before |-> IF op = "enable" /\ w.err = NoErr /\ Enables(arg)
                           THEN ByteBefore(arg) @@ last.before ELSE last.before]

Launch ==
    /\ ~obj
    /\ sessions < MaxSessions
    /\ \E debug \in BOOLEAN, stdout_replacement \in BOOLEAN, prog \in Programs,
          env \in [fork_ok : BOOLEAN, dup2_ok : BOOLEAN, traceme_ok : BOOLEAN,
                   exec_ok : BOOLEAN] :
          Commit(launch([World EXCEPT !.mem = prog], ChildPid(sessions), debug,
                        stdout_replacement, env),
                 "launch", ChildPid(sessions), debug,
                 ChildFate(debug, stdout_replacement, env))
    /\ sessions' = sessions + 1

\* attach to pid; a process ExternalPid(0) runs outside the debugger
Attach ==
    /\ ~obj
    /\ sessions < MaxSessions
    /\ \E pid \in {-1, 0, ExternalPid(0), ExternalPid(1)}, prog \in Programs :
          LET w0 == IF Alive(kern) /\ ~kern.child THEN World
                    ELSE [World EXCEPT !.kern = ExternalProcess(ExternalPid(0)),
                                       !.mem = prog]
          IN  Commit(attach(w0, pid), "attach", pid, TRUE, "")
    /\ sessions' = sessions + 1

Resume ==
    /\ obj
    /\ Commit(resume(World), "resume", 0, FALSE, "")
    /\ UNCHANGED sessions

WaitOnSignal ==
    /\ obj
    /\ Commit(wait_on_signal(World), "wait_on_signal", 0, FALSE, "")
    /\ UNCHANGED sessions

StepInstruction ==
    /\ obj
    /\ Commit(step_instruction(World), "step_instruction", 0, FALSE, "")
    /\ UNCHANGED sessions

\* create_breakpoint_site(address) with an address up to top; at most n sites
\* are constructed
CreateBreakpointSite(n, top) ==
    /\ obj
    /\ \E address \in 0..top :
          /\ id_ < n \/ contains_address(m_breakpoints, address)
          /\ Commit(create_breakpoint_site(World, address), "create_breakpoint_site",
                    address, FALSE, "")
    /\ UNCHANGED sessions

\* create_watchpoint(address, mode, size) with an address and a size of the
\* sets given; at most n watchpoints are constructed
CreateWatchpoint(n, addresses, modes, sizes) ==
    /\ obj
    /\ \E address \in addresses, mode \in modes, size \in sizes :
          /\ wp_id < n \/ contains_address(m_watchpoints, address)
          /\ Commit(create_watchpoint(World, address, mode, size),
                    "create_watchpoint", address, FALSE, "")
    /\ UNCHANGED sessions

\* PTRACE_POKEDATA may fail with EIO although PTRACE_PEEKDATA succeeded
Fault(eio) == IF eio THEN "EIO" ELSE ""

\* breakpoint_sites().get_by_id(id).enable(), with the faults that may occur
EnableSite(n, faults) ==
    /\ obj
    /\ \E id \in 1..n, eio \in faults :
          Commit(enable_by_id([World EXCEPT !.eio = eio], id), "enable", id,
                 FALSE, Fault(eio))
    /\ UNCHANGED sessions

DisableSite(n, faults) ==
    /\ obj
    /\ \E id \in 1..n, eio \in faults :
          Commit(disable_by_id([World EXCEPT !.eio = eio], id), "disable", id,
                 FALSE, Fault(eio))
    /\ UNCHANGED sessions

\* breakpoint_sites().remove_by_id(id)
RemoveSite(n, faults) ==
    /\ obj
    /\ \E id \in 1..n, eio \in faults :
          Commit(remove_by_id([World EXCEPT !.eio = eio], id), "remove_by_id", id,
                 FALSE, Fault(eio))
    /\ UNCHANGED sessions

\* breakpoint_sites().get_by_id(id), for ids that exist and ids that do not
GetById ==
    /\ obj
    /\ \E id \in 0..(MaxIds + 1) :
          Commit(get_by_id(World, m_breakpoints, id), "get_by_id", id, FALSE, "")
    /\ UNCHANGED sessions

\* breakpoint_sites().get_by_address(address)
GetByAddress ==
    /\ obj
    /\ \E address \in 0..(MaxAddr + 1) :
          Commit(get_by_address(World, m_breakpoints, address), "get_by_address",
                 address, FALSE, "")
    /\ UNCHANGED sessions

\* breakpoint_sites().remove_by_address(address)
RemoveSiteAt(faults) ==
    /\ obj
    /\ \E address \in 0..MaxAddr, eio \in faults :
          Commit(remove_by_address([World EXCEPT !.eio = eio], address),
                 "remove_by_address", address, FALSE, Fault(eio))
    /\ UNCHANGED sessions

\* breakpoint_sites().for_each(f), then size()
ForEach ==
    /\ obj
    /\ Commit([for_each(World, m_breakpoints) EXCEPT !.val = stoppoints_size(m_breakpoints)],
              "for_each", 0, FALSE, "")
    /\ UNCHANGED sessions

\* the registers written and read: a register of 8 bytes, the second byte
\* of its word, a register of the i387 area, and the debug control register
RegIds == {"rax", "ah", "fcw", "dr7"}

\* the kernel takes every value for a general-purpose register and checks
\* what is written to a debug register, which it may refuse
Refusals(id) == IF register_info_by_id(id).type = "dr" THEN BOOLEAN ELSE {FALSE}

\* the values written: unsigned integers of 1, 2 and 8 bytes
RegValues ==
    {[bytes |-> <<171>>, signed |-> FALSE],
     [bytes |-> <<52, 18>>, signed |-> FALSE],
     [bytes |-> <<1, 2, 3, 4, 5, 6, 7, 8>>, signed |-> FALSE]}

\* the signed values written: the std::int8_t -1 and 5, the std::int16_t -2
SignedValues ==
    {[bytes |-> <<255>>, signed |-> TRUE],
     [bytes |-> <<5>>, signed |-> TRUE],
     [bytes |-> <<254, 255>>, signed |-> TRUE]}

\* get_registers().write_by_id(id, v) with a value of the set given; the
\* kernel may refuse the write
WriteValue(values) ==
    /\ obj
    /\ \E id \in RegIds, v \in values :
       \E eio \in Refusals(id) :
          Commit(write_by_id([World EXCEPT !.eio = eio, !.reg = id, !.value = v],
                             id, v),
                 "write", 0, FALSE, Fault(eio))
    /\ UNCHANGED sessions

WriteRegister == WriteValue(RegValues)

WriteSigned == WriteValue(SignedValues)

\* get_registers().read(register_info_by_id(id))
ReadRegister ==
    /\ obj
    /\ \E id \in RegIds :
          Commit([World EXCEPT !.reg = id,
                               !.data = registers_read(m_registers,
                                                       register_info_by_id(id))],
                 "read", 0, FALSE, "")
    /\ UNCHANGED sessions

\* the data a caller writes over a patch: one byte
PatchData == {<<144>>}

\* the data a caller writes: nothing, one byte, and a word and a byte
WriteData == {<<>>, <<144>>, [i \in 1..(WordBytes + 1) |-> i]}

\* write_memory(address, data) with a data of those given; last.data are the
\* bytes the caller passed
WriteMemory(datas) ==
    /\ obj
    /\ \E address \in 0..MaxAddr, data \in datas :
          Commit([write_memory(World, address, data) EXCEPT !.data = data],
                 "write_memory", address, FALSE, "")
    /\ UNCHANGED sessions

\* read_memory_without_traps(address, amount)
ReadMemoryWithoutTraps ==
    /\ obj
    /\ \E address \in 0..MaxAddr, amount \in 0..MaxRead :
          Commit(read_memory_without_traps(World, address, amount),
                 "read_memory_without_traps", address, FALSE, "")
    /\ UNCHANGED sessions

\* the process object goes out of scope
Destroy ==
    /\ obj
    /\ Commit(destroy(World), "destroy", m_pid, m_is_attached, "")
    /\ UNCHANGED sessions

\* the running inferior executes one instruction
InferiorRuns ==
    /\ kern.status = "running"
    /\ kern' = Instr(kern, mem)
    /\ UNCHANGED <<obj, m_pid, m_terminate_on_end, m_is_attached, m_state,
                   m_registers, m_breakpoints, m_watchpoints, id_, wp_id, mem,
                   last, sessions, chan>>

\* somebody else sends SIGSTOP to the inferior: a running tracee stops and
\* reports it, for a tracee in a stop the signal stays pending
ExternalStop ==
    /\ Alive(kern)
    /\ kern.traced
    /\ ~kern.sigstop
    /\ kern' = Deliver(kern, SIGSTOP)
    /\ UNCHANGED <<obj, m_pid, m_terminate_on_end, m_is_attached, m_state,
                   m_registers, m_breakpoints, m_watchpoints, id_, wp_id, mem,
                   last, sessions, chan>>

\* somebody else kills the inferior
ExternalKill ==
    /\ Alive(kern)
    /\ kern' = Deliver(kern, SIGKILL)
    /\ UNCHANGED <<obj, m_pid, m_terminate_on_end, m_is_attached, m_state,
                   m_registers, m_breakpoints, m_watchpoints, id_, wp_id, mem,
                   last, sessions, chan>>

\* The life of process objects: launch or attach, run control, breakpoint
\* sites, destruction, with the inferior running and dying on its own.
Next ==
    \/ Launch
    \/ Attach
    \/ Resume
    \/ WaitOnSignal
    \/ StepInstruction
    \/ CreateBreakpointSite(MaxSites, MaxSites - 1)
    \/ EnableSite(MaxSites, {FALSE})
    \/ DisableSite(MaxSites, {FALSE})
    \/ RemoveSite(MaxSites, {FALSE})
    \/ Destroy
    \/ InferiorRuns
    \/ ExternalKill

Spec == Init /\ [][Next]_vars

\* the sizes asked for in create_watchpoint: two sizes of the hardware and
\* one that is not a power of two
WatchSizes == {1, 2, 3}

\* The stoppoints of one launched, stopped process: creation and removal of
\* breakpoint sites, creation of watchpoints.
InitPoints ==
    /\ \E prog \in Programs :
          Is(launch(Blank(prog), ChildPid(0), TRUE, FALSE,
                    [fork_ok |-> TRUE, dup2_ok |-> TRUE, traceme_ok |-> TRUE,
                     exec_ok |-> TRUE]))
    /\ last = [NoCall EXCEPT !.op = "launch", !.arg = ChildPid(0), !.debug = TRUE,
                             !.in = "exec"]
    /\ sessions = 1
    /\ chan = NoChannel

NextPoints ==
    \/ CreateBreakpointSite(MaxIds, MaxAddr)
    \/ CreateWatchpoint(MaxWatch, 0..MaxAddr, {"WRITE"}, WatchSizes)
    \/ RemoveSite(MaxIds, {FALSE})
    \/ RemoveSiteAt({FALSE})
    \/ GetById
    \/ GetByAddress
    \/ ForEach

SpecPoints == InitPoints /\ [][NextPoints]_vars

\* The breakpoint sites of one launched, stopped process: sites are created,
\* enabled, disabled and removed; a write of a word may fail, and the inferior
\* may be killed.
NextSites ==
    \/ CreateBreakpointSite(MaxSites, MaxAddr)
    \/ EnableSite(MaxSites, BOOLEAN)
    \/ DisableSite(MaxSites, BOOLEAN)
    \/ RemoveSite(MaxSites, BOOLEAN)
    \/ RemoveSiteAt(BOOLEAN)
    \/ ExternalKill

SpecSites == InitPoints /\ [][NextSites]_vars

\* The register file of one launched process: registers are written and
\* read while the inferior is stepped; the kernel may refuse a write.
\* watchpoints().get_by_id(id).enable() with an id up to n
EnableWatchpoint(n) ==
    /\ obj
    /\ \E id \in 1..n :
          Commit(enable_watchpoint_by_id(World, id), "enable_watchpoint", id,
                 FALSE, "")
    /\ UNCHANGED sessions

\* watchpoints().get_by_id(id).disable() with an id of the set given
DisableWatchpoint(ids) ==
    /\ obj
    /\ \E id \in ids :
          Commit(disable_watchpoint_by_id(World, id), "disable_watchpoint", id,
                 FALSE, "")
    /\ UNCHANGED sessions

NextRegs ==
    \/ WriteRegister
    \/ ReadRegister
    \/ StepInstruction

\* a launched, stopped process whose program runs for ever
InitRegs == InitPoints /\ mem = Program(3)

SpecRegs == InitRegs /\ [][NextRegs]_vars

\* a program whose first instruction jumps over the byte at address 1: a
\* jump to 2, a nop, a jump back to 0; the bytes behind are exits
JumpProgram ==
    [a \in 0..(MemSize - 1) |->
        IF a = 0 THEN 2
        ELSE IF a = 1 THEN 144
        ELSE IF a = 2 THEN 0
        ELSE 195]

\* a launched, stopped process that runs the jumping program
InitTrap ==
    /\ Is(launch(Blank(JumpProgram), ChildPid(0), TRUE, FALSE,
                 [fork_ok |-> TRUE, dup2_ok |-> TRUE, traceme_ok |-> TRUE,
                  exec_ok |-> TRUE]))
    /\ last = [NoCall EXCEPT !.op = "launch", !.arg = ChildPid(0), !.debug = TRUE,
                             !.in = "exec"]
    /\ sessions = 1
    /\ chan = NoChannel

\* Breakpoint sites in a program that jumps: sites are created, enabled and
\* disabled while the inferior is stepped, resumed and waited for.
NextTrap ==
    \/ CreateBreakpointSite(MaxIds, MaxAddr)
    \/ EnableSite(MaxIds, {FALSE})
    \/ DisableSite(MaxIds, {FALSE})
    \/ StepInstruction
    \/ Resume
    \/ WaitOnSignal
    \/ InferiorRuns

SpecTrap == InitTrap /\ [][NextTrap]_vars

\* Stepping and resuming over enabled sites while signals arrive: the
\* programs of the tests, with sites created and enabled, the inferior
\* stepped, resumed and waited for, and SIGSTOP sent from outside.
NextSwallow ==
    \/ CreateBreakpointSite(MaxIds, MaxAddr)
    \/ EnableSite(MaxIds, {FALSE})
    \/ StepInstruction
    \/ Resume
    \/ WaitOnSignal
    \/ InferiorRuns
    \/ ExternalStop

SpecSwallow == InitPoints /\ [][NextSwallow]_vars

\* the variables of the process object and of its inferior
process_vars ==
    <<obj, m_pid, m_terminate_on_end, m_is_attached, m_state, m_registers,
      m_breakpoints, m_watchpoints, id_, wp_id, kern, mem, last, sessions>>

\* a call on the pipe object: what it leaves, its name and its error
PipeCall(p, op, err) ==
    /\ chan' = [chan EXCEPT !.p = p, !.op = op, !.prev = chan.op, !.err = err]
    /\ UNCHANGED process_vars

\* pipe channel(close_on_exec), at most n times
MakePipe(n) ==
    /\ ~chan.live
    /\ chan.made < n
    /\ \E close_on_exec \in BOOLEAN :
          chan' = [live |-> TRUE, made |-> chan.made + 1, op |-> "pipe",
                   prev |-> chan.op, err |-> NoErr, p |-> pipe(close_on_exec)]
    /\ UNCHANGED process_vars

\* channel.close_read()
CloseRead == chan.live /\ PipeCall(close_read(chan.p), "close_read", NoErr)

\* channel.close_write()
CloseWrite == chan.live /\ PipeCall(close_write(chan.p), "close_write", NoErr)

\* what is written to a pipe
PipeData == {"exec failed", "Tracing failed"}

\* channel.write(data)
PipeWrite ==
    /\ chan.live
    /\ \E data \in PipeData :
          PipeCall(pipe_write(chan.p, data).ch, "write",
                   pipe_write(chan.p, data).err)

\* channel.read(), which returns when there is data or no writer
PipeRead ==
    /\ chan.live
    /\ ~pipe_read(chan.p).blocked
    /\ PipeCall(IF pipe_read(chan.p).err = NoErr THEN pipe_read(chan.p).ch
                ELSE chan.p,
                "read", pipe_read(chan.p).err)

\* the pipe object leaves its scope
DestroyPipe ==
    /\ chan.live
    /\ chan' = [chan EXCEPT !.live = FALSE, !.p = pipe_destroy(chan.p),
                            !.op = "destroy", !.prev = chan.op, !.err = NoErr]
    /\ UNCHANGED process_vars

\* Pipe objects: made, written, read, their ends closed in any order and any
\* number of times, destroyed.
NextPipe ==
    \/ MakePipe(MaxPipes)
    \/ CloseRead
    \/ CloseWrite
    \/ PipeWrite
    \/ PipeRead
    \/ DestroyPipe

SpecPipe == Init /\ [][NextPipe]_vars

\* the addresses read from: around the starts of the pages, inside a page,
\* and the last page of the address space
ChunkAddresses ==
    {virt_addr_plus(virt_addr_minus(p * PageSize, 1), d) :
        p \in 0..MaxPages, d \in 0..2}
        \cup {100, PageSize - 96, AddrModulus - PageSize}

\* the amounts read: nothing, a few bytes, and around whole pages
ChunkAmounts ==
    {0, 1, 2, 96} \cup {p * PageSize + d - 1 : p \in 1..MaxPages, d \in 0..2}

\* read_memory(address, amount)
ReadMemory ==
    /\ obj
    /\ \E address \in ChunkAddresses, amount \in ChunkAmounts :
          Commit([read_memory(World, address, amount) EXCEPT !.val = amount],
                 "read_memory", address, FALSE, "")
    /\ UNCHANGED sessions

\* Reads of the inferior's memory at and across the ends of pages.
NextChunks == ReadMemory

SpecChunks == InitRegs /\ [][NextChunks]_vars

\* Registers written with signed values.
NextSigned ==
    \/ WriteSigned
    \/ ReadRegister
    \/ StepInstruction

SpecSigned == InitRegs /\ [][NextSigned]_vars

\* the modes and the sizes of the watchpoints set, by the number of
\* watchpoints constructed before
HwModes == <<"WRITE", "READ_WRITE">>

HwSizes == <<1, 2, 4, 8>>

\* the ids disable is called with
DisableIds == {1, 2}

\* Watchpoints in the debug registers: up to MaxHw watchpoints are set at
\* addresses eight bytes apart and enabled in any order; the first two of
\* them are disabled and enabled again.
NextHw ==
    \/ CreateWatchpoint(MaxHw, {8 * wp_id}, {HwModes[(wp_id % 2) + 1]},
                        {HwSizes[(wp_id % 4) + 1]})
    \/ EnableWatchpoint(MaxHw)
    \/ DisableWatchpoint(DisableIds)

SpecHw == InitRegs /\ [][NextHw]_vars

\* The memory of one launched, stopped process: breakpoint sites are created,
\* enabled and disabled while the caller reads and writes the memory.
NextMemory ==
    \/ CreateBreakpointSite(MaxSites, MaxAddr)
    \/ EnableSite(MaxSites, {FALSE})
    \/ DisableSite(MaxSites, {FALSE})
    \/ WriteMemory(PatchData)
    \/ ReadMemoryWithoutTraps

SpecMemory == InitPoints /\ [][NextMemory]_vars

\* Writes to the memory of one launched, stopped process in which breakpoint
\* sites are created and enabled.
NextWrite ==
    \/ CreateBreakpointSite(MaxSites, MaxAddr)
    \/ EnableSite(MaxSites, {FALSE})
    \/ WriteMemory(WriteData)

SpecWrite == InitRegs /\ [][NextWrite]_vars

(***************************************************************************)
(* Properties.                                                             *)
(***************************************************************************)
Terminal == m_state \in {EXITED, TERMINATED}

\* the position of the first entry of log that is the call with argument arg,
\* 0 if there is none
LogIndex(log, call, arg) ==
    IF \E i \in 1..Len(log) : log[i].call = call /\ log[i].arg = arg
    THEN CHOOSE i \in 1..Len(log) :
            /\ log[i].call = call /\ log[i].arg = arg
            /\ \A j \in 1..(i - 1) : ~(log[j].call = call /\ log[j].arg = arg)
    ELSE 0

\* C1: exited and terminated are terminal.  Once the recorded state of a
\* process object is exited or terminated it never changes while the object
\* lives, and every resume(), step_instruction() and wait_on_signal() called
\* in that state raises an error.
C1_TerminalStatesStay ==
    [][(obj /\ Terminal) =>
          /\ (obj' => m_state' = m_state)
          /\ ((Resume \/ StepInstruction \/ WaitOnSignal) =>
                 last'.err # NoErr /\ obj' /\ m_state' = m_state)]_vars

\* C1, its case: the inferior of a launched process exited, resume() was
\* called again and raised.
C1_Witness ==
    /\ obj /\ kern.child /\ m_state = EXITED
    /\ last.op = "resume" /\ last.err = "Could not resume"

\* C2: launch, attach, wait_on_signal and step_instruction never return
\* normally with the recorded state running, and the recorded state becomes
\* running only by a resume() that returns normally.
C2_RunningOnlyByResume ==
    [][/\ (\/ obj' /\ m_state' \in {STOPPED, EXITED, TERMINATED}
           \/ ~(/\ last'.err = NoErr
                /\ (Launch \/ Attach \/ WaitOnSignal \/ StepInstruction)))
       /\ (obj' /\ m_state' = RUNNING /\ ~(obj /\ m_state = RUNNING)
              => Resume /\ last'.err = NoErr)]_vars

\* C2, its case: step_instruction() returned normally after the inferior
\* exited during the step.
C2_Witness ==
    /\ obj /\ last.op = "step_instruction" /\ last.err = NoErr
    /\ m_state = EXITED

\* C3: a resume() called in the state stopped that raises an error leaves
\* the recorded state stopped.
C3_FailedResumeStaysStopped ==
    [][(obj /\ m_state = STOPPED /\ Resume /\ last'.err # NoErr)
          => m_state' = STOPPED]_vars

\* C4: whenever a process object exists and its recorded state is stopped,
\* the inferior is not executing.
C4_StoppedMeansStopped ==
    obj /\ m_state = STOPPED => kern.status # "running"

\* the messages a child of launch can send through the error channel
ChildMessages == {"stdout replacement failed", "Tracing failed", "exec failed"}

\* C5: launch() raises the child's message exactly when the child failed
\* before a successful exec, and returns a process object exactly when the
\* exec succeeded, whatever debug is.
C5_LaunchRelaysChildError ==
    last.op = "launch" =>
        /\ last.in \in ChildMessages => last.err = last.in /\ ~obj
        /\ last.in = "exec" => last.err = NoErr /\ obj /\ m_pid = last.arg
        /\ last.err \in ChildMessages => last.in = last.err
        /\ obj => last.in = "exec"

\* C5, its case: a launch with debug = true whose child failed at TRACEME
\* raised "Tracing failed".
C5_Witness ==
    /\ last.op = "launch" /\ last.debug
    /\ last.in = "Tracing failed" /\ last.err = "Tracing failed" /\ ~obj

\* C6: attach(pid) with pid <= 0 raises a library error, issues no request
\* to the kernel, creates no process object and leaves every process
\* untraced and unstopped.
C6_AttachInvalidPid ==
    last.op = "attach" /\ last.arg <= 0 =>
        /\ last.err = "Invalid PID"
        /\ last.log = <<>>
        /\ ~obj
        /\ ~kern.traced /\ kern.status # "stopped"

\* C6, its case: attach(0) was called while another process was running.
C6_Witness ==
    /\ last.op = "attach" /\ last.arg = 0 /\ last.err = "Invalid PID"
    /\ kern.status = "running"

\* C7: when a process object made by launch() has been destroyed, or
\* launch() has raised after the fork, the child is dead and reaped.
C7_LaunchedChildReaped ==
    \/ last.op = "destroy" /\ kern.child /\ kern.pid = last.arg
    \/ last.op = "launch" /\ last.err # NoErr /\ last.in # "no child"
    => kern.status = "gone"

\* C7, its case: a launched process that was running under the tracer was
\* destroyed; the destructor stopped it, detached, killed and reaped it.
C7_Witness ==
    /\ last.op = "destroy" /\ kern.child /\ kern.pid = last.arg
    /\ LogIndex(last.log, "kill", SIGSTOP) = 1
    /\ \E i \in 1..Len(last.log) :
          /\ last.log[i] = [call |-> "kill", arg |-> SIGKILL, st |-> "running"]
    /\ kern.status = "gone"

\* the object was made by attach()
Attached == obj /\ m_is_attached /\ ~m_terminate_on_end

\* C8 as stated: when a process object made by attach() is destroyed, every
\* DETACH is issued while the inferior is stopped.
C8_DetachOnlyWhenStopped ==
    [][Attached /\ Destroy =>
          \A i \in 1..Len(last'.log) :
             last'.log[i].call = "PTRACE_DETACH" => last'.log[i].st = "stopped"]_vars

\* C8: when a process object made by attach() is destroyed while its
\* inferior is alive, SIGSTOP is delivered and waited for first if the
\* recorded state is running, DETACH is issued while the inferior is stopped,
\* SIGCONT is delivered after DETACH, SIGKILL is never sent, and the inferior
\* is left alive, untraced and running.
C8_DetachLeavesInferiorRunning ==
    [][Attached /\ Alive(kern) /\ Destroy =>
          LET log == last'.log
              detach == LogIndex(log, "PTRACE_DETACH", 0)
          IN  /\ m_state = RUNNING =>
                    /\ Len(log) >= 2
                    /\ log[1].call = "kill" /\ log[1].arg = SIGSTOP
                    /\ log[2].call = "waitpid"
              /\ detach > 0
              /\ \A i \in 1..Len(log) :
                    /\ log[i].call = "PTRACE_DETACH" => log[i].st = "stopped"
                    /\ log[i].call = "kill" /\ log[i].arg = SIGCONT => i > detach
                    /\ ~(log[i].call = "kill" /\ log[i].arg = SIGKILL)
              /\ \E i \in 1..Len(log) : log[i].call = "kill" /\ log[i].arg = SIGCONT
              /\ kern'.status = "running" /\ ~kern'.traced /\ kern'.pid = kern.pid]_vars

\* C8, its case: an attached process whose recorded state was running has
\* been destroyed and its inferior runs on, untraced.
C8_Witness ==
    /\ last.op = "destroy" /\ last.debug /\ ~kern.child
    /\ LogIndex(last.log, "kill", SIGSTOP) = 1
    /\ LogIndex(last.log, "PTRACE_DETACH", 0) = 3
    /\ kern.status = "running" /\ ~kern.traced

\* C9: each successful create_breakpoint_site returns an id one greater than
\* the previous successful one, whatever failed creations and removals
\* happened in between.
C9_IdsIncrease ==
    \A i \in 2..Len(last.issued) : last.issued[i] = last.issued[i - 1] + 1

\* C9, its case: the second site was created after the first was removed and
\* got the id 2.
C9_Witness ==
    /\ last.op = "create_breakpoint_site" /\ last.err = NoErr /\ last.val = 2
    /\ last.issued = <<1, 2>>
    /\ Len(m_breakpoints) = 1

\* no two stoppoints of the collection have the same address
DistinctAddresses(points) ==
    \A i, j \in 1..Len(points) :
       points[i].m_address = points[j].m_address => i = j

\* C10: no two stoppoints of one kind have the same address, and a creation
\* at an address already in the collection raises and leaves the collections
\* and the memory of the inferior unchanged.
C10_OneStoppointPerAddress ==
    [][/\ DistinctAddresses(m_breakpoints') /\ DistinctAddresses(m_watchpoints')
       /\ \/ last'.op = "create_breakpoint_site"
                /\ contains_address(m_breakpoints, last'.arg)
          \/ last'.op = "create_watchpoint"
                /\ contains_address(m_watchpoints, last'.arg)
          => /\ last'.err # NoErr
             /\ UNCHANGED <<m_breakpoints, m_watchpoints, mem>>]_vars

\* C10, its case: a second breakpoint site was asked for at the address of
\* one of two existing sites and the call raised.
C10_Witness ==
    /\ last.op = "create_breakpoint_site" /\ last.err # NoErr
    /\ Len(m_breakpoints) = 2
    /\ \E i \in 1..Len(m_breakpoints) : m_breakpoints[i].m_address = last.arg

\* C11: a successful enable() of a disabled site at A sets the byte at A to
\* 0xCC, saves the byte that was there, marks the site enabled and changes
\* nothing else; a successful creation leaves the new site disabled and the
\* memory as it was.
C11_EnablePatchesOneByte ==
    [][/\ \A id \in 1..MaxSites :
             /\ EnableSite(MaxSites, BOOLEAN) /\ last'.arg = id
             /\ Enables(id) /\ last'.err = NoErr
             => LET it == find_by_id(m_breakpoints, id)
                    A == m_breakpoints[it].m_address
                IN  /\ mem' = [mem EXCEPT ![A] = SOFTWARE_BREAKPOINT_INSTRUCTION]
                    /\ m_breakpoints' =
                          [m_breakpoints EXCEPT ![it].m_is_enabled = TRUE,
                                                ![it].m_saved_data = mem[A]]
       /\ CreateBreakpointSite(MaxSites, MaxAddr) /\ last'.err = NoErr
             => /\ mem' = mem
                /\ last'.log = <<>>
                /\ Len(m_breakpoints') = Len(m_breakpoints) + 1
                /\ \A i \in 1..Len(m_breakpoints) : m_breakpoints'[i] = m_breakpoints[i]
                /\ ~m_breakpoints'[Len(m_breakpoints')].m_is_enabled]_vars

\* C11, its case: a site at address 1 was enabled; the byte there is 0xCC, the
\* saved byte is the instruction that was there and the byte after it is as
\* it was.
C11_Witness ==
    /\ last.op = "enable" /\ last.err = NoErr /\ Len(last.log) = 2
    /\ \E i \in 1..Len(m_breakpoints) :
          /\ m_breakpoints[i].m_id = last.arg
          /\ m_breakpoints[i].m_address = 1
          /\ m_breakpoints[i].m_is_enabled
          /\ m_breakpoints[i].m_saved_data = 0
          /\ mem[1] = SOFTWARE_BREAKPOINT_INSTRUCTION
          /\ mem[2] = 195

\* the site id is in the collection and enabled
EnabledSite(points, id) ==
    \E i \in 1..Len(points) : points[i].m_id = id /\ points[i].m_is_enabled

\* the address of the site id
AddressOf(points, id) == points[find_by_id(points, id)].m_address

\* C12: whenever an enabled site of a living process object stops being
\* enabled (by disable(), by removal, or inside resume and step_instruction),
\* the byte at its address is again the byte that was there just before the
\* enable() that enabled it, and no other byte of the memory changes; a
\* disable() that returns normally leaves the site disabled.
C12_DisableRestoresByte ==
    [][\A id \in 1..MaxSites :
          obj /\ obj' /\ EnabledSite(m_breakpoints, id) =>
             LET A == AddressOf(m_breakpoints, id)
             IN  /\ ~EnabledSite(m_breakpoints', id) =>
                       /\ id \in DOMAIN last.before
                       /\ mem'[A] = last.before[id]
                       /\ \A a \in DOMAIN mem : a # A => mem'[a] = mem[a]
                 /\ DisableSite(MaxSites, {FALSE}) /\ last'.arg = id /\ last'.err = NoErr
                       => ~EnabledSite(m_breakpoints', id)]_vars

\* C12, its case: a site at address 0 was enabled, the inferior was stepped
\* over it, and disable() put the instruction back.
C12_Witness ==
    /\ obj /\ kern.child /\ m_registers.rip = 1
    /\ last.op = "disable" /\ last.err = NoErr /\ Len(last.log) = 2
    /\ \E i \in 1..Len(m_breakpoints) :
          /\ m_breakpoints[i].m_id = last.arg
          /\ m_breakpoints[i].m_address = 0
          /\ ~m_breakpoints[i].m_is_enabled
          /\ last.before[last.arg] = 144
          /\ mem[0] = 144

\* the site id is in the collection
HasSite(points, id) == \E i \in 1..Len(points) : points[i].m_id = id

\* C13: enable() of an enabled site and disable() of a disabled site return
\* normally, issue no request and change neither the site nor the memory,
\* whatever the inferior's condition; the saved byte of an enabled site is
\* never the 0xCC patch.
C13_RepeatedEnableIsNoOp ==
    [][/\ \A id \in 1..MaxSites :
             \/ /\ EnableSite(MaxSites, BOOLEAN) /\ last'.arg = id
                /\ EnabledSite(m_breakpoints, id)
             \/ /\ DisableSite(MaxSites, BOOLEAN) /\ last'.arg = id
                /\ HasSite(m_breakpoints, id) /\ ~EnabledSite(m_breakpoints, id)
             => /\ last'.err = NoErr
                /\ last'.log = <<>>
                /\ m_breakpoints' = m_breakpoints
                /\ mem' = mem
       /\ \A i \in 1..Len(m_breakpoints') :
             m_breakpoints'[i].m_is_enabled =>
                m_breakpoints'[i].m_saved_data # SOFTWARE_BREAKPOINT_INSTRUCTION]_vars

\* C13, its case: enable() was called on an enabled site after the inferior
\* had been killed; it returned normally without a request.
C13_Witness ==
    /\ last.op = "enable" /\ last.err = NoErr /\ last.log = <<>>
    /\ EnabledSite(m_breakpoints, last.arg)
    /\ ~Alive(kern)
    /\ mem[AddressOf(m_breakpoints, last.arg)] = SOFTWARE_BREAKPOINT_INSTRUCTION

\* C14: an enable() that raises leaves the site disabled and the memory
\* unchanged; a disable() that raises leaves the site enabled and the memory
\* unchanged.
C14_FailedEnableChangesNothing ==
    [][\A id \in 1..MaxSites :
          HasSite(m_breakpoints, id) /\ last'.arg = id /\ last'.err # NoErr =>
             /\ EnableSite(MaxSites, BOOLEAN) =>
                   /\ HasSite(m_breakpoints', id)
                   /\ ~EnabledSite(m_breakpoints', id)
                   /\ mem' = mem
             /\ DisableSite(MaxSites, BOOLEAN) =>
                   /\ EnabledSite(m_breakpoints', id)
                   /\ mem' = mem]_vars

\* C14, its case: the write of disable() failed after its read had succeeded;
\* the site is still enabled and its patch in place.
C14_Witness ==
    /\ last.op = "disable" /\ last.in = "EIO" /\ Alive(kern)
    /\ last.err = "Disabling breakpoint site failed: Failed to remove the breakpoint instruction"
    /\ EnabledSite(m_breakpoints, last.arg)
    /\ mem[AddressOf(m_breakpoints, last.arg)] = SOFTWARE_BREAKPOINT_INSTRUCTION

\* C14, the other cases: the read of enable() failed, the write of enable()
\* failed, the read of disable() failed.
C14_WitnessEnableRead ==
    /\ last.op = "enable" /\ ~Alive(kern)
    /\ last.err = "Enabling breakpoint site failed: Failed to fetch the contents"

C14_WitnessEnableWrite ==
    /\ last.op = "enable" /\ last.in = "EIO"
    /\ last.err = "Enabling breakpoint site failed: Failed to set the breakpoint instruction"

C14_WitnessDisableRead ==
    /\ last.op = "disable" /\ ~Alive(kern)
    /\ last.err = "Disabling breakpoint site failed: Failed to fetch the contents"

\* C15: every enabled site at A has the byte 0xCC at A in the memory of the
\* inferior.
C15_EnabledSitesArePatched ==
    obj => \A i \in 1..Len(m_breakpoints) :
              m_breakpoints[i].m_is_enabled =>
                 mem[m_breakpoints[i].m_address] = SOFTWARE_BREAKPOINT_INSTRUCTION

C16_WitnessBehindRange ==
    /\ last.op = "read_memory_without_traps" /\ last.err = NoErr
    /\ last.arg = 0 /\ Len(last.data) = 1
    /\ EnabledSite(m_breakpoints, 1) /\ AddressOf(m_breakpoints, 1) = 1
    /\ mem[1] = SOFTWARE_BREAKPOINT_INSTRUCTION
    /\ last.data[1] = mem[0]

\* the inferior has executed the INT3 of the enabled site at address a and
\* the stop is not yet reported
TrappedAt(a) ==
    /\ kern.status = "stopped"
    /\ kern.event = [kind |-> "stopped", info |-> SIGTRAP]
    /\ a = virt_addr_minus(kern.rip, 1)
    /\ Mapped(a) /\ mem[a] = SOFTWARE_BREAKPOINT_INSTRUCTION
    /\ enabled_stoppoint_at_address(m_breakpoints, a)

\* C17: a wait_on_signal that reports the trap of the INT3 of an enabled site
\* at A returns (stopped, SIGTRAP) and leaves the program counter at A, in
\* the register cache and in the kernel.
C17_TrapRewindsPc ==
    [][\A a \in {virt_addr_minus(kern.rip, 1)} :
          TrappedAt(a) /\ WaitOnSignal =>
             /\ last'.err = NoErr
             /\ last'.ret = [kind |-> STOPPED, info |-> SIGTRAP]
             /\ m_state' = STOPPED
             /\ m_registers'.rip = a
             /\ kern'.rip = a]_vars

\* C17, its case: the inferior was resumed, ran into the INT3 of an enabled
\* site, and wait_on_signal has reported the stop at the site's address.
C17_Witness ==
    /\ last.op = "wait_on_signal" /\ last.err = NoErr
    /\ last.ret = [kind |-> STOPPED, info |-> SIGTRAP]
    /\ enabled_stoppoint_at_address(m_breakpoints, m_registers.rip)
    /\ kern.rip = m_registers.rip
    /\ mem[kern.rip] = SOFTWARE_BREAKPOINT_INSTRUCTION

\* the names of the system calls of a log, in order
Calls(log) == [i \in 1..Len(log) |-> log[i].call]

\* the system calls of a refresh of the register cache
RefreshCalls ==
    <<"PTRACE_GETREGS", "PTRACE_GETFPREGS">> \o [i \in 1..8 |-> "PTRACE_PEEKUSER"]

\* the object is stopped with its program counter at the enabled site i, whose
\* patch is in place and whose original instruction does not end the inferior
StoppedAtSite(i) ==
    /\ obj /\ m_state = STOPPED
    /\ kern.status = "stopped" /\ kern.traced /\ kern.pid = m_pid
    /\ kern.rip = m_registers.rip
    /\ i \in 1..Len(m_breakpoints)
    /\ m_breakpoints[i].m_is_enabled
    /\ m_breakpoints[i].m_address = m_registers.rip
    /\ mem[m_registers.rip] = SOFTWARE_BREAKPOINT_INSTRUCTION
    /\ Opcode(m_breakpoints[i].m_saved_data) \in {"nop", "jmp"}

\* where the program counter is after the instruction b at address a
NextPc(a, b) == IF Opcode(b) = "nop" THEN virt_addr_plus(a, 1) ELSE b

EnabledIds(points) ==
    {points[i].m_id : i \in {j \in 1..Len(points) : points[j].m_is_enabled}}

\* C19: step_instruction() and resume(), returning or raising, leave the set
\* of enabled sites as it was before the call.
C19_StepKeepsEnabledSites ==
    [][(Resume \/ StepInstruction) =>
          EnabledIds(m_breakpoints') = EnabledIds(m_breakpoints)]_vars

\* C20: step_instruction() in the state stopped, on a stopped inferior,
\* returns without an error the stop reason of the wait that follows the
\* single-step.
C20_StepReturnsStopReason ==
    [][(/\ StepInstruction
        /\ m_state = STOPPED
        /\ kern.status = "stopped" /\ kern.traced /\ kern.pid = m_pid
        /\ kern.rip = m_registers.rip)
          => /\ last'.err = NoErr
             /\ last'.ret.kind = m_state']_vars

\* C21: get_by_id(id) returns the element with that id exactly when
\* contains_id(id) holds and raises otherwise; get_by_address(addr) returns
\* the element at that address exactly when contains_address(addr) holds and
\* raises otherwise; neither changes the collection.
C21_LookupsAgreeWithContains ==
    [][/\ (last'.op = "get_by_id" /\ GetById) =>
             /\ m_breakpoints' = m_breakpoints
             /\ (last'.err = NoErr) = contains_id(m_breakpoints, last'.arg)
             /\ last'.err = NoErr =>
                   /\ last'.val = last'.arg
                   /\ \E i \in 1..Len(m_breakpoints) :
                         /\ m_breakpoints[i].m_id = last'.val
                         /\ m_breakpoints[i].m_address = last'.data[1]
       /\ (last'.op = "get_by_address" /\ GetByAddress) =>
             /\ m_breakpoints' = m_breakpoints
             /\ (last'.err = NoErr) = contains_address(m_breakpoints, last'.arg)
             /\ last'.err = NoErr =>
                   /\ last'.data = <<last'.arg>>
                   /\ \E i \in 1..Len(m_breakpoints) :
                         /\ m_breakpoints[i].m_id = last'.val
                         /\ m_breakpoints[i].m_address = last'.arg]_vars

\* C21, its case: with two sites in the collection, get_by_id found the
\* second one.
C21_Witness ==
    /\ last.op = "get_by_id" /\ last.err = NoErr
    /\ Len(m_breakpoints) = 2 /\ m_breakpoints[2].m_id = last.arg

\* C21, another case: get_by_address raised for an address without a site
\* while the collection was not empty.
C21_WitnessAbsent ==
    /\ last.op = "get_by_address" /\ last.err # NoErr
    /\ Len(m_breakpoints) > 0

\* the ids of the elements of a collection, in the order of the collection
Ids(points) == [i \in 1..Len(points) |-> points[i].m_id]

C22_WitnessOrder ==
    /\ last.op = "for_each" /\ last.data = <<1, 2>> /\ last.val = 2

\* what C23 says of a removal that looked for the element at position it of
\* the collection (Len + 1 if there is none)
RemovalDisablesFirst(it) ==
    IF it = Len(m_breakpoints) + 1
    THEN /\ last'.err # NoErr
         /\ UNCHANGED <<m_breakpoints, mem, kern>>
    ELSE LET site == m_breakpoints[it]
             A == site.m_address
         IN  IF last'.err = NoErr
             THEN /\ ~contains_address(m_breakpoints', A)
                  /\ ~contains_id(m_breakpoints', site.m_id)
                  /\ site.m_is_enabled => mem'[A] = site.m_saved_data
                  /\ ~site.m_is_enabled => mem'[A] = mem[A]
                  /\ \A a \in DOMAIN mem : a # A => mem'[a] = mem[a]
             ELSE /\ site.m_is_enabled
                  /\ m_breakpoints' = m_breakpoints
                  /\ mem' = mem

\* C23: remove_by_id and remove_by_address disable the site before they erase
\* it.  After the removal of an enabled site at A the byte at A is the byte
\* the site saved and no site is at A; a removal of an absent id or address
\* raises and changes nothing; a removal whose disable raises leaves the site
\* in the collection.
C23_RemoveDisablesFirst ==
    [][/\ (last'.op = "remove_by_id" /\ RemoveSite(MaxSites, BOOLEAN)) =>
             RemovalDisablesFirst(find_by_id(m_breakpoints, last'.arg))
       /\ (last'.op = "remove_by_address" /\ RemoveSiteAt(BOOLEAN)) =>
             RemovalDisablesFirst(find_by_address(m_breakpoints, last'.arg))]_vars

\* C23, its case: an enabled site at address 0 was removed by its id; the
\* instruction is back and the collection is empty.
C23_Witness ==
    /\ last.op = "remove_by_id" /\ last.err = NoErr
    /\ 1 \in DOMAIN last.before /\ mem[0] = last.before[1]
    /\ mem[0] # SOFTWARE_BREAKPOINT_INSTRUCTION
    /\ m_breakpoints = <<>>

\* C23, another case: the disable of remove_by_address raised and the enabled
\* site is still in the collection.
C23_WitnessDisableRaises ==
    /\ last.op = "remove_by_address" /\ last.err # NoErr
    /\ contains_address(m_breakpoints, last.arg)
    /\ m_breakpoints[find_by_address(m_breakpoints, last.arg)].m_is_enabled

\* C26: a watchpoint is constructed only if its address is a multiple of its
\* size, whatever the size; a construction that fails with "Watchpoint must
\* be aligned to size" adds nothing to the collection.
C26_WatchpointAligned ==
    [][(/\ last'.op = "create_watchpoint"
        /\ CreateWatchpoint(MaxWatch, 0..MaxAddr, {"WRITE"}, WatchSizes)) =>
          /\ last'.err = NoErr =>
                LET point == m_watchpoints'[Len(m_watchpoints')]
                IN  /\ m_watchpoints' = Append(m_watchpoints, point)
                    /\ point.m_address = last'.arg
                    /\ point.m_address % point.m_size = 0
          /\ last'.err = "Watchpoint must be aligned to size" =>
                m_watchpoints' = m_watchpoints]_vars

\* C27: after a registers::write on a stopped inferior, returning or raising,
\* the cached user area and the user area of the kernel agree if they agreed
\* before.
C27_WriteIsAtomic ==
    [][(/\ last'.op = "write"
        /\ kern.status = "stopped" /\ kern.traced /\ kern.pid = m_pid
        /\ m_registers.user = kern.user
        /\ WriteRegister) =>
          m_registers'.user = kern'.user]_vars

\* the unsigned value of the bytes given, in a register of n bytes
ZeroExtended(bytes, n) == [i \in 1..n |-> IF i <= Len(bytes) THEN bytes[i] ELSE 0]

\* the last call was a successful write of an unsigned value
WroteUnsigned == last.op = "write" /\ last.err = NoErr /\ ~last.value.signed

\* C29: a read that follows a successful write(reg, v) of an unsigned v
\* returns v, zero-extended to the size of reg; so does the cache after a
\* step of the inferior that follows the write.
C29_WriteReadRoundTrip ==
    [][/\ (WroteUnsigned /\ last'.op = "read" /\ last'.reg = last.reg
             /\ ReadRegister) =>
             last'.data = ZeroExtended(last.value.bytes,
                                       register_info_by_id(last.reg).size)
       /\ (WroteUnsigned /\ last'.op = "step_instruction" /\ last'.err = NoErr
             /\ m_state' = STOPPED /\ StepInstruction) =>
             registers_read(m_registers', register_info_by_id(last.reg)) =
                ZeroExtended(last.value.bytes,
                             register_info_by_id(last.reg).size)]_vars

\* C29, its case: one byte was written to the x87 control word, whose two
\* bytes were 0x037f, and the read that followed gave the byte and a zero.
C29_Witness ==
    /\ last.op = "read" /\ last.reg = "fcw" /\ last.data = <<171, 0>>
    /\ kern.user[224][1] = 171 /\ kern.user[224][2] = 0

\* C29, another case: the inferior was stepped after rax was written and the
\* refreshed cache holds the value.
C29_WitnessStep ==
    /\ last.op = "step_instruction" /\ last.err = NoErr /\ m_state = STOPPED
    /\ registers_read(m_registers, register_info_by_id("rax")) =
          <<1, 2, 3, 4, 5, 6, 7, 8>>

\* C30: registers::write with a value of more bytes than the register raises
\* "mismatched register and value sizes", changes no byte of the cache and
\* issues no request to the kernel.
C30_OversizedWriteRejected ==
    [][(/\ last'.op = "write"
        /\ Len(last'.value.bytes) > register_info_by_id(last'.reg).size
        /\ WriteRegister) =>
          /\ last'.err =
                "sdb::registers::write called with mismatched register and value sizes"
          /\ m_registers' = m_registers
          /\ kern' = kern
          /\ last'.log = <<>>]_vars

\* C30, its case: eight bytes were written to ah after ah had been given a
\* byte, and the call raised.
C30_Witness ==
    /\ last.op = "write" /\ last.reg = "ah" /\ Len(last.value.bytes) = 8
    /\ last.err # NoErr
    /\ registers_read(m_registers, register_info_by_id("ah")) = <<171>>

\* the cached registers are those of the kernel
CacheIsKernel(regs, k) == regs.rip = k.rip /\ regs.user = k.user

\* the call that has just returned stopped the attached inferior: launch,
\* attach, wait_on_signal or step_instruction returned with the state
\* STOPPED, or resume stepped over a site and continued
ReturnedFromStop(l, attached, state) ==
    /\ l.err = NoErr
    /\ attached
    /\ \/ /\ l.op \in {"launch", "attach", "wait_on_signal", "step_instruction"}
          /\ state = STOPPED
       \/ /\ l.op = "resume"
          /\ \E i \in 1..Len(l.log) : l.log[i].call = "PTRACE_SINGLESTEP"

\* C28: when launch, attach, wait_on_signal or step_instruction returns with
\* an attached process stopped, and when resume returns after its step over
\* a site, the cached rip, general-purpose word, FP word and debug registers
\* are those of the kernel (a rewound pc included).
C28_StopRefreshesCache ==
    [][\/ CacheIsKernel(m_registers', kern')
       \/ ~(/\ obj'
            /\ ReturnedFromStop(last', m_is_attached', m_state')
            /\ (Launch \/ Attach \/ WaitOnSignal \/ StepInstruction \/ Resume))]_vars

\* C28, its case: a wait returned a trap at an enabled site, the pc was
\* rewound, and the cache holds the kernel's pc and the FP control word the
\* program started with.
C28_Witness ==
    /\ last.op = "wait_on_signal" /\ last.err = NoErr /\ m_state = STOPPED
    /\ \E i \in 1..Len(last.log) : last.log[i].call = "PTRACE_POKEUSER"
    /\ CacheIsKernel(m_registers, kern)
    /\ m_registers.user = ExecUser

\* C28, another case: resume stepped over a site and the cache holds the
\* registers of the stop after the single step.
C28_WitnessResume ==
    /\ ReturnedFromStop(last, m_is_attached, m_state) /\ last.op = "resume"
    /\ CacheIsKernel(m_registers, kern)
    /\ m_registers.user = ExecUser

\* the indices of the enabled stoppoints of a collection
EnabledPoints(points) == {i \in 1..Len(points) : points[i].m_is_enabled}

\* what a user area holds for a slot: the address register, the
\* local-enable bit and the condition and length nibble
SlotState(user, slot) ==
    [address |-> user[DebugOffsets[slot + 1]],
     enable |-> LocalEnable(user[904], slot),
     control |-> ControlNibble(user[904], slot)]

\* the slot of an installed watchpoint
InstalledSlot(point) ==
    [address |-> AddressValue(point.m_address).bytes,
     enable |-> TRUE,
     control |-> EncodedControl(point.m_mode, point.m_size)]

FreeSlot == [address |-> ZeroWord, enable |-> FALSE, control |-> 0]

\* every enabled watchpoint owns a slot of its own that holds its address,
\* mode and size in the cache and in the kernel, so that at most four are
\* enabled
SlotsOwned(points, regs, k) ==
    /\ Cardinality(EnabledPoints(points)) <= 4
    /\ \A i \in EnabledPoints(points) :
          /\ points[i].m_hardware_register_index \in HardwareSlots
          /\ SlotState(regs.user, points[i].m_hardware_register_index) =
                InstalledSlot(points[i])
          /\ SlotState(k.user, points[i].m_hardware_register_index) =
                InstalledSlot(points[i])
          /\ \A j \in EnabledPoints(points) :
                i # j => points[i].m_hardware_register_index #
                            points[j].m_hardware_register_index

\* the position of the watchpoint the call just made was about
Target == find_by_id(m_watchpoints, last'.arg)

\* the call just made was op on a watchpoint of the collection, which was
\* enabled (or not) before the call
OnWatchpoint(op, enabled) ==
    /\ last'.op = op
    /\ Target <= Len(m_watchpoints)
    /\ m_watchpoints[Target].m_is_enabled = enabled

\* C24: at most four watchpoints are enabled, each in a slot of its own; with
\* four enabled, enable() of a fifth raises "no free debug registers" and
\* changes neither the watchpoint nor the debug registers; disable() of an
\* enabled one clears its slot and no other, and the enable() that follows
\* succeeds.
C24_AtMostFourEnabled ==
    [][/\ SlotsOwned(m_watchpoints', m_registers', kern')
       /\ (/\ OnWatchpoint("enable_watchpoint", FALSE)
           /\ Cardinality(EnabledPoints(m_watchpoints)) = 4) =>
             /\ last'.err = "no free debug registers"
             /\ m_watchpoints' = m_watchpoints
             /\ m_registers' = m_registers
             /\ kern' = kern
             /\ last'.log = <<>>
       /\ OnWatchpoint("disable_watchpoint", TRUE) =>
             LET slot == m_watchpoints[Target].m_hardware_register_index
             IN  /\ last'.err = NoErr
                 /\ m_watchpoints' =
                       [m_watchpoints EXCEPT ![Target].m_is_enabled = FALSE]
                 /\ SlotState(m_registers'.user, slot) = FreeSlot
                 /\ SlotState(kern'.user, slot) = FreeSlot
                 /\ \A other \in HardwareSlots \ {slot} :
                       /\ SlotState(m_registers'.user, other) =
                             SlotState(m_registers.user, other)
                       /\ SlotState(kern'.user, other) =
                             SlotState(kern.user, other)
       /\ (/\ last.op = "disable_watchpoint" /\ last.err = NoErr
           /\ last.log # <<>>
           /\ OnWatchpoint("enable_watchpoint", FALSE)) =>
             /\ last'.err = NoErr
             /\ m_watchpoints'[Target].m_is_enabled]_vars

\* C24, its case: four watchpoints are enabled and enable() of another one
\* raised.
C24_Witness ==
    /\ last.op = "enable_watchpoint" /\ last.err = "no free debug registers"
    /\ Cardinality(EnabledPoints(m_watchpoints)) = 4
    /\ ~m_watchpoints[find_by_id(m_watchpoints, last.arg)].m_is_enabled
    /\ FreeSlots(m_registers) = {}

\* C24, another case: with four enabled one was disabled, and the fifth was
\* enabled in the slot that became free.
C24_WitnessFreed ==
    /\ last.op = "enable_watchpoint" /\ last.err = NoErr /\ last.log # <<>>
    /\ Cardinality(EnabledPoints(m_watchpoints)) = 4
    /\ Len(m_watchpoints) = 5
    /\ \E i \in 1..Len(m_watchpoints) :
          /\ ~m_watchpoints[i].m_is_enabled
          /\ m_watchpoints[i].m_hardware_register_index =
                m_watchpoints[find_by_id(m_watchpoints, last.arg)].m_hardware_register_index

\* C25: a successful enable() of a watchpoint that is not enabled gives it the
\* smallest slot whose local-enable bit is clear in the cached dr7 of the
\* time of the call; enable() of an enabled watchpoint issues no request and
\* changes nothing.
C25_LowestFreeSlot ==
    [][/\ (OnWatchpoint("enable_watchpoint", FALSE) /\ last'.err = NoErr) =>
             /\ m_watchpoints'[Target].m_is_enabled
             /\ m_watchpoints'[Target].m_hardware_register_index
                   \in FreeSlots(m_registers)
             /\ \A free \in FreeSlots(m_registers) :
                   m_watchpoints'[Target].m_hardware_register_index <= free
       /\ OnWatchpoint("enable_watchpoint", TRUE) =>
             /\ last'.err = NoErr
             /\ last'.log = <<>>
             /\ m_watchpoints' = m_watchpoints
             /\ m_registers' = m_registers
             /\ kern' = kern]_vars

\* C25, its case: slot 1 was free between two slots in use and the
\* watchpoint enabled last was given slot 1.
C25_Witness ==
    /\ last.op = "enable_watchpoint" /\ last.err = NoErr /\ last.log # <<>>
    /\ m_watchpoints[find_by_id(m_watchpoints, last.arg)].m_hardware_register_index = 1
    /\ LocalEnable(registers_read(m_registers, register_info_by_id("dr7")), 2)
    /\ ~LocalEnable(registers_read(m_registers, register_info_by_id("dr7")), 3)

\* C25, another case: enable() was called on an enabled watchpoint and did
\* nothing.
C25_WitnessEnabled ==
    /\ last.op = "enable_watchpoint" /\ last.err = NoErr /\ last.log = <<>>
    /\ m_watchpoints[find_by_id(m_watchpoints, last.arg)].m_is_enabled

\* C31: a successful write of a signed value of fewer bytes than a register
\* of format uint and size 2, 4 or 8 leaves in the register the bytes of the
\* value followed by zeros, for negative values too.
C31_SignedZeroExtended ==
    [][(/\ last'.op = "write" /\ last'.err = NoErr
        /\ last'.value.signed
        /\ register_info_by_id(last'.reg).format = "uint"
        /\ register_info_by_id(last'.reg).size \in {2, 4, 8}
        /\ Len(last'.value.bytes) < register_info_by_id(last'.reg).size) =>
          registers_read(m_registers', register_info_by_id(last'.reg)) =
             ZeroExtended(last'.value.bytes, register_info_by_id(last'.reg).size)]_vars

\* the memory after data was written at address: the bytes of data in
\* [address, address + Len(data)), every other byte as it was
Written(memory, address, data) ==
    [a \in DOMAIN memory |->
        IF a >= address /\ a < address + Len(data) THEN data[a - address + 1]
        ELSE memory[a]]

\* C32: after a write_memory(address, data) that returns, the bytes at
\* [address, address + n) are those of data and every other byte of the
\* inferior is the byte it was, in the last word written too.
C32_WriteMemoryWritesData ==
    [][(last'.op = "write_memory" /\ last'.err = NoErr)
       => mem' = Written(mem, last'.arg, last'.data)]_vars

\* C32, its case: one byte was written at 0 while 0xCC was at 1, in the word
\* that was read and written back, and 0xCC is still there.
C32_Witness ==
    /\ last.op = "write_memory" /\ last.arg = 0 /\ last.err = NoErr
    /\ Len(last.log) = 2
    /\ mem[0] = 144
    /\ mem[1] = SOFTWARE_BREAKPOINT_INSTRUCTION
    /\ enabled_stoppoint_at_address(m_breakpoints, 1)

\* C32, another case: nine bytes were written at 1 with a whole word and a
\* spliced word, and the byte behind them is the byte of the program.
C32_WitnessTwoWords ==
    /\ last.op = "write_memory" /\ last.arg = 1 /\ last.err = NoErr
    /\ \A i \in 1..(WordBytes + 1) : mem[i] = i
    /\ mem[WordBytes + 2] = 195

\* each descriptor of the pipe has been closed at most once, and is marked
\* closed in the object exactly if it has been closed; once the object is
\* gone both have been closed
ClosedOnce(c) ==
    /\ \A i \in 1..2 :
          /\ c.p.closes[i] <= 1
          /\ c.live => (c.p.fds[i] = -1 <=> c.p.closes[i] = 1)
    /\ (~c.live /\ c.made > 0) => c.p.closes = <<1, 1>>

\* C33: whatever close_read and close_write calls are made on a pipe before it
\* is destroyed, each of its two descriptors is closed once, neither twice
\* nor never; a close of an end that is closed changes nothing.
C33_DescriptorsClosedOnce ==
    [][/\ ClosedOnce(chan')
       /\ (chan.live /\ chan.p.fds[1] = -1 /\ CloseRead) => chan'.p = chan.p
       /\ (chan.live /\ chan.p.fds[2] = -1 /\ CloseWrite) => chan'.p = chan.p]_vars

\* C33, its case: close_read was called twice and the pipe was destroyed;
\* both descriptors have been closed once.
C33_Witness ==
    /\ ~chan.live /\ chan.op = "destroy" /\ chan.prev = "close_read"
    /\ chan.p.closes = <<1, 1>>
    /\ chan.p.fds = <<-1, -1>>

\* C33, another case: the second of two close_read calls in a row.
C33_WitnessAgain ==
    /\ chan.live /\ chan.op = "close_read" /\ chan.prev = "close_read"
    /\ chan.p.closes[1] = 1
    /\ chan.p.fds[2] # -1

\* the state a wait status stands for
StateOfStatus(kind) ==
    CASE kind = "exited" -> EXITED
      [] kind = "signaled" -> TERMINATED
      [] kind = "stopped" -> STOPPED

\* wait statuses that are none of exited, signaled, stopped: a continued child
OtherStatuses == {[kind |-> "continued", info |-> SIGCONT]}

\* C34: a wait_on_signal whose waitpid returns the status of an exit, of a
\* death by signal or of a stop returns (EXITED, exit status), (TERMINATED,
\* signal) or (STOPPED, signal) and records that state; with any other
\* status it raises and m_state is what it was.
C34_StatusBecomesState ==
    [][/\ (/\ last'.op = "wait_on_signal"
           /\ kern.event # NoEvent /\ m_pid > 0 /\ m_pid = kern.pid
           /\ (kern.child \/ kern.traced)
           /\ WaitOnSignal) =>
             /\ last'.err = NoErr
             /\ last'.ret = [kind |-> StateOfStatus(kern.event.kind),
                             info |-> kern.event.info]
             /\ m_state' = StateOfStatus(kern.event.kind)
       /\ (obj /\ m_pid > 0 /\ m_pid = kern.pid /\ (kern.child \/ kern.traced)) =>
             \A status \in OtherStatuses :
                LET w == wait_on_signal([World EXCEPT !.kern.event = status])
                IN  /\ w.err = "Got a wait_status which doesn't represent a non-running child"
                    /\ w.m_state = m_state]_vars

\* C34, its case: the wait returned the death of the inferior by SIGKILL.
C34_Witness ==
    /\ last.op = "wait_on_signal" /\ last.err = NoErr
    /\ last.ret = [kind |-> TERMINATED, info |-> SIGKILL]
    /\ m_state = TERMINATED

\* C34, another case: the wait returned the exit of the inferior.
C34_WitnessExit ==
    /\ last.op = "wait_on_signal" /\ last.err = NoErr
    /\ last.ret = [kind |-> EXITED, info |-> 0]
    /\ m_state = EXITED

\* the byte i of the word at offset off lies outside the register
OutsideRegister(info, off, i) ==
    off + i - 1 < info.offset \/ off + i - 1 >= info.offset + info.size

\* C35: a write of a register of size s at offset o leaves every byte of the
\* cached user area and of the kernel's user area outside [o, o + s) as it
\* was, the other bytes of the word of the register included, and leaves rip.
C35_WriteChangesOnlyRegister ==
    [][(last'.op = "write" /\ WriteRegister) =>
          /\ \A off \in UserOffsets, i \in 1..WordBytes :
                OutsideRegister(register_info_by_id(last'.reg), off, i) =>
                   /\ m_registers'.user[off][i] = m_registers.user[off][i]
                   /\ kern'.user[off][i] = kern.user[off][i]
          /\ m_registers'.rip = m_registers.rip
          /\ kern'.rip = kern.rip]_vars

\* C35, its case: ah was written after rax had been given eight bytes, and
\* the seven other bytes of rax are those eight bytes' in the cache and in
\* the kernel.
C35_Witness ==
    /\ last.op = "write" /\ last.reg = "ah" /\ last.err = NoErr
    /\ m_registers.user[80] = <<1, 171, 3, 4, 5, 6, 7, 8>>
    /\ kern.user[80] = <<1, 171, 3, 4, 5, 6, 7, 8>>

RECURSIVE TotalLength(_)
\* the sum of the lengths of the ranges
TotalLength(descs) ==
    IF descs = <<>> THEN 0
    ELSE descs[1].iov_len + TotalLength(Tail(descs))

\* the ranges cover [address, address + amount) in order, none is empty and
\* none crosses the end of a page
ChunksCover(address, amount, descs) ==
    /\ amount = 0 => descs = <<>>
    /\ amount > 0 => descs # <<>> /\ descs[1].iov_base = address
    /\ TotalLength(descs) = amount
    /\ \A k \in 1..Len(descs) :
          /\ descs[k].iov_len >= 1
          /\ descs[k].iov_base \div PageSize =
                (descs[k].iov_base + descs[k].iov_len - 1) \div PageSize
          /\ k < Len(descs) =>
                descs[k + 1].iov_base =
                   virt_addr_plus(descs[k].iov_base, descs[k].iov_len)

\* C36: the ranges read_memory(address, amount) passes to process_vm_readv
\* are not empty, follow one another from address on, have the lengths that
\* sum to amount and lie each within one page of 4096 bytes; there is none
\* for the amount 0.
C36_ChunksWithinPages ==
    last.op = "read_memory" => ChunksCover(last.arg, last.val, last.iov)

\* C36, its case: a read of two pages and a byte from the last byte of a page
\* was split in three.
C36_Witness ==
    /\ last.op = "read_memory"
    /\ last.arg = PageSize - 1 /\ last.val = 2 * PageSize + 1
    /\ Len(last.iov) = 3
    /\ last.iov[2] = [iov_base |-> PageSize, iov_len |-> PageSize]

\* C36, another case: a read of nothing has no range and returns no byte.
C36_WitnessEmpty ==
    /\ last.op = "read_memory" /\ last.val = 0 /\ last.err = NoErr
    /\ last.iov = <<>> /\ last.data = <<>>

\* the stop of a single step of an instruction that is not an INT3: the
\* program counter is at no enabled site and the byte there is no INT3
StepsPlainInstruction ==
    /\ kern.status = "stopped"
    /\ Mapped(kern.rip)
    /\ Opcode(mem[kern.rip]) # "int3"
    /\ ~enabled_stoppoint_at_address(m_breakpoints, kern.rip)

\* C37: a step_instruction whose single step executed an instruction that is
\* not an INT3 leaves the program counter where the instruction left it, also
\* when that is one byte behind an enabled breakpoint site: only the trap of
\* an INT3 is rewound.
C37_OnlyInt3Rewinds ==
    [][(/\ last'.op = "step_instruction"
        /\ last'.err = NoErr
        /\ StepsPlainInstruction
        /\ StepInstruction)
       => kern'.rip = Instr(kern, mem).rip]_vars

\* the inferior after the single step that resume() makes over the enabled
\* site at its program counter, the site's byte restored
InternalStep ==
    LET site == m_breakpoints[find_by_address(m_breakpoints, kern.rip)]
        text == [mem EXCEPT ![kern.rip] = site.m_saved_data]
        k1 == Restart(kern)
    IN  IF k1.status = "running" THEN Instr(k1, text) ELSE k1

\* resume() is called on a stopped inferior at an enabled site, and its
\* internal step ends otherwise than by the trap of the step: with the stop
\* of another signal or with the end of the inferior
StepEndsOtherwise ==
    /\ kern.status = "stopped"
    /\ m_state = STOPPED
    /\ m_registers.rip = kern.rip
    /\ enabled_stoppoint_at_address(m_breakpoints, kern.rip)
    /\ InternalStep.status # "running"

\* C38: when the internal step of resume() over an enabled site ends with
\* the stop of another signal or with the end of the inferior, resume() does
\* not return as if it had resumed: it never continues the inferior with
\* PTRACE_CONT without an error.
C38_NoSilentContinue ==
    [][(last'.op = "resume" /\ StepEndsOtherwise)
       => ~(last'.err = NoErr /\ m_state' = RUNNING)]_vars

\* the sites of the process object that are enabled
EnabledSites == {i \in 1..Len(m_breakpoints) : m_breakpoints[i].m_is_enabled}

\* C39: the destruction of a process object obtained by attach() leaves the
\* inferior, when it lives on, with the saved original byte at the address of
\* every site that was enabled: no INT3 patch stays behind.
C39_DestroyRestoresTarget ==
    [][(/\ last'.op = "destroy"
        /\ obj /\ ~obj'
        /\ m_is_attached /\ ~m_terminate_on_end
        /\ Alive(kern'))
       => \A i \in EnabledSites :
             mem'[m_breakpoints[i].m_address] = m_breakpoints[i].m_saved_data]_vars

\* what may happen to a launch: the outcome of fork and of the three steps
\* of the child
LaunchEnvs ==
    [fork_ok : BOOLEAN, dup2_ok : BOOLEAN, traceme_ok : BOOLEAN, exec_ok : BOOLEAN]

\* C40: wherever launch() can be called it returns, with a process or with
\* an error, for debug true and false, with and without a replacement of
\* stdout, and for every outcome of the child: neither the wait for the
\* first stop nor the read of the error channel blocks.
C40_LaunchTerminates ==
    (~obj /\ sessions < MaxSessions)
    => \A debug \in BOOLEAN, stdout_replacement \in BOOLEAN, prog \in Programs,
          env \in LaunchEnvs :
          ~launch([World EXCEPT !.mem = prog], ChildPid(sessions), debug,
                  stdout_replacement, env).blocked

\* a launch with debug = true has returned after the stop of the exec
C40_Witness ==
    /\ last.op = "launch" /\ last.debug /\ last.in = "exec"
    /\ last.err = NoErr /\ obj /\ m_state = STOPPED

\* C40, another case: a launch without debug whose child failed to exec has
\* returned with the child's message
C40_WitnessFailed ==
    /\ last.op = "launch" /\ ~last.debug
    /\ last.err = "exec failed" /\ ~obj

====
